---- MODULE Spec2Model ----
(***************************************************************************)
(* Scoring engine of the LLM Visibility Analyzer (pdpIQ).                  *)
(*                                                                         *)
(* Encoding of JavaScript values                                           *)
(*   - points and scores are kept in TENTHS of a point (7.5 points = 75),  *)
(*     so that 0.7 * weight and weight / 2 stay exact;                     *)
(*   - context multipliers are kept in tenths (1.5 = 15), category weights *)
(*     in hundredths (0.25 = 25);                                          *)
(*   - a boolean fact is "true", "false" or "undefined"; an object fact is *)
(*     "object", "null" or "undefined"; a numeric fact is a natural        *)
(*     number, or -1 when the property is undefined;                       *)
(*   - a string fact of which the code reads only truthiness and .length   *)
(*     is its length (0 = null or empty); the og:image URL, which the code *)
(*     inspects, is a sequence of one-character strings;                   *)
(*   - a section or nested record that is absent has every fact undefined  *)
(*     (the code reads them through `data?.x || {}`);                      *)
(*   - the `details` text of a factor is not kept; where building it       *)
(*     dereferences an undefined value the scorer throws a TypeError.      *)
(***************************************************************************)
EXTENDS Integers, Sequences, FiniteSets, TLC

VARIABLES
    contextArg,         \* argument given to `new ScoringEngine(context)`
    extractedData,      \* argument of calculateScore: the page facts
    imageVerification,  \* argument of calculateScore: verification result or null
    ieeeTieUp,          \* how the double-precision weighted sum falls on an exact .5
    engine,             \* the constructed ScoringEngine: context and multipliers
    result,             \* the ScoreResult returned by calculateScore
    issues,             \* what getCriticalIssues returned for the result
    gradeArg,           \* argument of a direct getGrade call
    gradeRet,           \* its return value
    pc,                 \* position of the analysis: page, new, ready, scored, threw,
                        \* reported, summarized, recommended, saved, saveThrew
    summary,            \* what getCategoryScoreSummary returned for the result
    recommendations,    \* the recommendations derived from the result
    history,            \* chrome.storage.local[HISTORY_KEY]: the stored history
    entry,              \* the entry saveAnalysis returned
    clock,              \* Date.now()
    saveInput,          \* what saveAnalysis is given and finds: url, pageInfo,
                        \* recommendations or none, bytes in use, clock tick
    headingCounts,      \* the page: number of h1 .. h6 elements
    collector,          \* which analyzeHeadings reads the page
    worker,             \* the service worker: the message it was sent, what its
                        \* listener returned, the verifyImageFormat calls in
                        \* flight and the responses it sent
    callers             \* the storage-manager calls in flight: each caller's
                        \* operation, position and local copy of the history

vars == <<contextArg, extractedData, imageVerification, ieeeTieUp, engine,
          result, issues, gradeArg, gradeRet, pc, summary, recommendations,
          history, entry, clock, saveInput, headingCounts, collector, worker,
          callers>>

\* what the scoring engine and the grading functions leave alone
reportVars ==
    <<summary, recommendations, history, entry, clock, saveInput, headingCounts,
      collector, worker, callers>>

(***************************************************************************)
(* Bounds of the model                                                     *)
(***************************************************************************)
\* collector sub-scores are drawn from 0, 100/SubScoreSteps, ..., 100
SubScoreSteps == 4

\* a page holds at most this many h1 elements, and at most one h2 .. h6 each
MaxH1 == 2

(***************************************************************************)
(* weights.js                                                              *)
(***************************************************************************)
CATEGORY_WEIGHTS_unbalanced ==
    [structuredData |-> 25, protocolMeta |-> 20, contentQuality |-> 25,
     contentStructure |-> 15, authorityTrust |-> 10]

CATEGORY_WEIGHTS ==
    [structuredData |-> 25, protocolMeta |-> 20, contentQuality |-> 25,
     contentStructure |-> 15, authorityTrust |-> 15]

CONTEXT_MULTIPLIERS ==
    [want |->
        [emotionalBenefitCopy |-> 15, technicalSpecifications |-> 6,
         compatibilityInfo |-> 4, socialProof |-> 14, certifications |-> 5,
         reviewCount |-> 14, reviewRating |-> 13, benefitStatements |-> 15,
         warrantyInfo |-> 7, comparisonContent |-> 6],
     need |->
        [emotionalBenefitCopy |-> 5, technicalSpecifications |-> 15,
         compatibilityInfo |-> 20, socialProof |-> 8, certifications |-> 16,
         reviewCount |-> 8, reviewRating |-> 10, benefitStatements |-> 5,
         warrantyInfo |-> 14, comparisonContent |-> 14],
     hybrid |->
        [emotionalBenefitCopy |-> 10, technicalSpecifications |-> 10,
         compatibilityInfo |-> 10, socialProof |-> 10, certifications |-> 10,
         reviewCount |-> 10, reviewRating |-> 10, benefitStatements |-> 10,
         warrantyInfo |-> 10, comparisonContent |-> 10]]

FACTOR_WEIGHTS ==
    [structuredData |->
        [productSchema |-> 30, offerSchema |-> 20, aggregateRating |-> 15,
         reviewSchema |-> 10, faqSchema |-> 10, breadcrumbSchema |-> 5,
         organizationSchema |-> 5, imageSchema |-> 5],
     protocolMeta |->
        [ogImage |-> 20, ogImageFormat |-> 15, ogTitle |-> 10,
         ogDescription |-> 10, ogType |-> 5, twitterCard |-> 10,
         twitterImage |-> 5, canonical |-> 10, metaDescription |-> 10,
         robotsAllowsIndex |-> 5],
     contentQuality |->
        [descriptionLength |-> 15, descriptionQuality |-> 10,
         specificationCount |-> 10, specificationDetail |-> 5,
         featureCount |-> 10, faqPresence |-> 10, dimensions |-> 5,
         materials |-> 5, careInstructions |-> 3, warrantyInfo |-> 7,
         compatibilityInfo |-> 10, comparisonContent |-> 5],
     contentStructure |->
        [h1Presence |-> 15, headingHierarchy |-> 12, semanticHTML |-> 12,
         contentRatio |-> 12, tableStructure |-> 10, listStructure |-> 8,
         ariaLabels |-> 6, primaryImageAlt |-> 10, allImagesAlt |-> 8,
         jsDependency |-> 10, readability |-> 8],
     authorityTrust |->
        [reviewCount |-> 25, averageRating |-> 20, reviewRecency |-> 15,
         reviewDepth |-> 10, brandClarity |-> 15, certifications |-> 10,
         awards |-> 5]]

GRADE_THRESHOLDS == [A |-> 90, B |-> 80, C |-> 70, D |-> 60, F |-> 0]

getGrade_strict(score) ==
    IF score > GRADE_THRESHOLDS.A THEN "A"
    ELSE IF score > GRADE_THRESHOLDS.B THEN "B"
    ELSE IF score > GRADE_THRESHOLDS.C THEN "C"
    ELSE IF score > GRADE_THRESHOLDS.D THEN "D"
    ELSE "F"

getGrade(score) ==
    IF score >= GRADE_THRESHOLDS.A THEN "A"
    ELSE IF score >= GRADE_THRESHOLDS.B THEN "B"
    ELSE IF score >= GRADE_THRESHOLDS.C THEN "C"
    ELSE IF score >= GRADE_THRESHOLDS.D THEN "D"
    ELSE "F"

getGradeDescription(grade) ==
    CASE grade = "A" -> "Excellent LLM visibility; minor optimizations possible"
      [] grade = "B" -> "Good foundation; specific gaps to address"
      [] grade = "C" -> "Average visibility; significant opportunities"
      [] grade = "D" -> "Below average; multiple critical issues"
      [] grade = "F" -> "Poor visibility; fundamental changes needed"
      [] OTHER -> ""

(***************************************************************************)
(* JavaScript primitives used by the scorers                               *)
(***************************************************************************)
Truthy(b) == b = "true"

\* `x || 0` on a numeric fact
OrZero(n) == IF n < 0 THEN 0 ELSE n

Min(a, b) == IF a <= b THEN a ELSE b

\* Math.round(n / d) for n >= 0, d > 0: the nearest integer, halves upwards
MathRound(n, d) == (2 * n + d) \div (2 * d)

\* Math.round((subScore / 100) * weight), the result in whole points.  The
\* double product is the exact product for every integer subScore in 0..100
\* and every weight that is scaled this way, except (58 / 100) * 25, which
\* evaluates to 14.499999999999998.
SubScorePoints(subScore, weight) ==
    IF subScore = 58 /\ weight = 25 THEN 14
    ELSE MathRound(subScore * weight, 100)

\* a factor record; points and maxPoints in tenths of a point
Factor(name, status, points, maxPoints, critical, contextual) ==
    [name |-> name, status |-> status, points |-> points,
     maxPoints |-> maxPoints, critical |-> critical, contextual |-> contextual]

RECURSIVE SumPoints(_)
SumPoints(factors) ==
    IF factors = <<>> THEN 0
    ELSE Head(factors).points + SumPoints(Tail(factors))

\* String.prototype.toLowerCase on the characters the model's URLs use
LowerChar(c) ==
    CASE c = "J" -> "j" [] c = "P" -> "p" [] c = "G" -> "g" [] c = "A" -> "a"
      [] OTHER -> c

toLowerCase(s) == [i \in 1..Len(s) |-> LowerChar(s[i])]

endsWith(s, suffix) ==
    /\ Len(suffix) <= Len(s)
    /\ SubSeq(s, Len(s) - Len(suffix) + 1, Len(s)) = suffix

includes(s, sub) ==
    \E i \in 1..(Len(s) - Len(sub) + 1) : SubSeq(s, i, i + Len(sub) - 1) = sub

RasterExtensions ==
    { <<".", "j", "p", "g">>, <<".", "j", "p", "e", "g">>,
      <<".", "p", "n", "g">>, <<".", "g", "i", "f">> }

\* url.match(/\.(jpe?g|png|gif)(\?|$)/)
matchesRasterExtension(url) ==
    \E ext \in RasterExtensions : endsWith(url, ext) \/ includes(url, ext \o <<"?">>)

WebpExtension == <<".", "w", "e", "b", "p">>

(***************************************************************************)
(* ScoringEngine.scoreStructuredData                                       *)
(***************************************************************************)
\* x?.length > 0, for the length of an array (-1: the array is undefined)
hasItems_orEmpty(length) == length >= 0

hasItems(length) == length > 0

\* building `details` reads data.schemas.product.name and
\* data.schemas.aggregateRating.ratingValue whenever the value is !== null
throwsStructuredData(data) ==
    \/ data.schemas.product = "undefined"
    \/ data.schemas.aggregateRating = "undefined"

scoreStructuredData(data) ==
    LET weights == FACTOR_WEIGHTS.structuredData
        s == data.schemas
        hasProduct == s.product # "null"
        hasOffer == s.offer # "null"
        hasRating == s.aggregateRating # "null"
        hasReviews == hasItems(s.reviews)
        \* data.schemas.faq?.questionCount
        questionCount == IF s.faq = "object" THEN s.faqQuestionCount ELSE -1
        hasFaq == s.faq # "null" /\ questionCount > 0
        hasBreadcrumb == s.breadcrumb # "null"
        hasOrg == s.organization # "null" \/ s.brand # "null"
        hasImageSchema == hasItems(s.images)
        Binary(name, has, w, critical) ==
            Factor(name, IF has THEN "pass" ELSE "fail",
                   IF has THEN 10 * w ELSE 0, 10 * w, critical, FALSE)
        factors ==
            << Binary("Product Schema", hasProduct, weights.productSchema, TRUE),
               Binary("Offer Schema", hasOffer, weights.offerSchema, TRUE),
               Binary("AggregateRating Schema", hasRating, weights.aggregateRating, FALSE),
               Binary("Review Schema", hasReviews, weights.reviewSchema, FALSE),
               Binary("FAQ Schema", hasFaq, weights.faqSchema, FALSE),
               Binary("Breadcrumb Schema", hasBreadcrumb, weights.breadcrumbSchema, FALSE),
               Binary("Organization/Brand Schema", hasOrg, weights.organizationSchema, FALSE),
               Binary("ImageObject Schema", hasImageSchema, weights.imageSchema, FALSE) >>
    IN  [score |-> SumPoints(factors), maxScore |-> 1000, factors |-> factors,
         weight |-> CATEGORY_WEIGHTS.structuredData,
         categoryName |-> "Structured Data"]

(***************************************************************************)
(* ScoringEngine.scoreProtocolMeta                                         *)
(***************************************************************************)
Tiered_halfWhenNotOptimal(name, present, optimal, w) ==
    Factor(name,
           IF present THEN (IF optimal THEN "pass" ELSE "warning") ELSE "fail",
           IF present THEN (IF optimal THEN 10 * w ELSE 5 * w) ELSE 0,
           10 * w, FALSE, FALSE)

\* the three-way `present ? (optimal ? w : w * 0.7) : 0` pattern
Tiered(name, present, optimal, w) ==
    Factor(name,
           IF present THEN (IF optimal THEN "pass" ELSE "warning") ELSE "fail",
           IF present THEN (IF optimal THEN 10 * w ELSE 7 * w) ELSE 0,
           10 * w, FALSE, FALSE)

\* the og:image format factor, [status, points], when a verification result
\* was passed in
verifiedFormat_validFirst(iv, w) ==
    IF iv.isValidFormat THEN [status |-> "pass", points |-> 10 * w]
    ELSE IF iv.isWebP THEN [status |-> "fail", points |-> 0]
    ELSE [status |-> "warning", points |-> 5 * w]

verifiedFormat(iv, w) ==
    IF iv.isWebP THEN [status |-> "fail", points |-> 0]
    ELSE IF iv.isValidFormat THEN [status |-> "pass", points |-> 10 * w]
    ELSE [status |-> "warning", points |-> 5 * w]

\* the same factor inferred from the og:image URL when nothing was verified
inferredFormat_halfWhenUnknown(image, w) ==
    LET url == toLowerCase(image)
    IN  IF endsWith(url, WebpExtension) \/ includes(url, WebpExtension \o <<"?">>)
        THEN [status |-> "fail", points |-> 0]
        ELSE IF matchesRasterExtension(url)
        THEN [status |-> "pass", points |-> 10 * w]
        ELSE [status |-> "warning", points |-> 5 * w]

inferredFormat(image, w) ==
    LET url == toLowerCase(image)
    IN  IF endsWith(url, WebpExtension) \/ includes(url, WebpExtension \o <<"?">>)
        THEN [status |-> "fail", points |-> 0]
        ELSE IF matchesRasterExtension(url)
        THEN [status |-> "pass", points |-> 10 * w]
        ELSE [status |-> "unknown", points |-> 0]

imageFormat(og, iv, w) ==
    IF iv.given THEN verifiedFormat(iv, w)
    ELSE IF Len(og.image) > 0 THEN inferredFormat(og.image, w)
    ELSE [status |-> "unknown", points |-> 0]

\* the robots factor
robotsFactor_neverCritical(isBlocked, w) ==
    Factor("Robots Allows Indexing", IF isBlocked THEN "fail" ELSE "pass",
           IF isBlocked THEN 0 ELSE 10 * w, 10 * w, FALSE, FALSE)

robotsFactor(isBlocked, w) ==
    Factor("Robots Allows Indexing", IF isBlocked THEN "fail" ELSE "pass",
           IF isBlocked THEN 0 ELSE 10 * w, 10 * w, isBlocked, FALSE)

scoreProtocolMeta(data, iv) ==
    LET weights == FACTOR_WEIGHTS.protocolMeta
        og == data.openGraph
        twitter == data.twitterCards
        hasOgImage == Len(og.image) > 0
        fmt == imageFormat(og, iv, weights.ogImageFormat)
        hasOgTitle == og.title > 0
        titleLength == og.title
        titleOptimal == titleLength > 0 /\ titleLength <= 60
        hasOgDesc == og.description > 0
        descLength == og.description
        descOptimal == descLength >= 100 /\ descLength <= 200
        isProductType == og.type = "product" \/ og.type = "og:product"
        hasTwitterCard == twitter.card # ""
        isLargeImage == twitter.card = "summary_large_image"
        hasTwitterImage == twitter.image > 0
        hasCanonical == Truthy(data.canonical.present)
        canonicalMatches == Truthy(data.canonical.matchesCurrentUrl)
        hasMetaDesc == data.standard.description > 0
        metaDescLength == data.standard.description
        metaDescOptimal == metaDescLength >= 120 /\ metaDescLength <= 160
        isBlocked == Truthy(data.robots.isBlocked)
        factors ==
            << Factor("og:image Present", IF hasOgImage THEN "pass" ELSE "fail",
                      IF hasOgImage THEN 10 * weights.ogImage ELSE 0,
                      10 * weights.ogImage, TRUE, FALSE),
               Factor("og:image Format", fmt.status, fmt.points,
                      10 * weights.ogImageFormat, TRUE, FALSE),
               Tiered("og:title", hasOgTitle, titleOptimal, weights.ogTitle),
               Tiered("og:description", hasOgDesc, descOptimal, weights.ogDescription),
               Factor("og:type = product", IF isProductType THEN "pass" ELSE "fail",
                      IF isProductType THEN 10 * weights.ogType ELSE 0,
                      10 * weights.ogType, FALSE, FALSE),
               Tiered("Twitter Card", hasTwitterCard, isLargeImage, weights.twitterCard),
               Factor("Twitter Image", IF hasTwitterImage THEN "pass" ELSE "fail",
                      IF hasTwitterImage THEN 10 * weights.twitterImage ELSE 0,
                      10 * weights.twitterImage, FALSE, FALSE),
               Tiered("Canonical URL", hasCanonical, canonicalMatches, weights.canonical),
               Tiered("Meta Description", hasMetaDesc, metaDescOptimal, weights.metaDescription),
               robotsFactor(isBlocked, weights.robotsAllowsIndex) >>
    IN  [score |-> SumPoints(factors), maxScore |-> 1000, factors |-> factors,
         weight |-> CATEGORY_WEIGHTS.protocolMeta,
         categoryName |-> "Protocol & Meta Compliance"]

(***************************************************************************)
(* ScoringEngine.scoreContentQuality                                       *)
(***************************************************************************)
\* Math.round(score * multiplier), score in whole points
Scaled(score, multiplier) == MathRound(score * multiplier, 10)

\* Math.min(100, rawScore)
clampScore_none(rawScore) == rawScore

clampScore(rawScore) == Min(1000, rawScore)

\* Description Quality: half the weight per kind of copy, then rounded and
\* capped at the weight; the result in whole points
descriptionQualityScore(desc, multipliers, w) ==
    LET emotional == IF Truthy(desc.hasBenefitStatements) \/ Truthy(desc.hasEmotionalLanguage)
                     THEN (w * multipliers.emotionalBenefitCopy) \div 2 ELSE 0
        technical == IF Truthy(desc.hasTechnicalTerms)
                     THEN (w * multipliers.technicalSpecifications) \div 2 ELSE 0
    IN  Min(w, MathRound(emotional + technical, 10))
specificationPoints_cappedAt150(countScore, multipliers, w) ==
    LET specScore == Scaled(SubScorePoints(OrZero(countScore), w),
                            multipliers.technicalSpecifications)
    IN  Min(15 * w, 10 * specScore)

\* Specifications: scaled, capped at 150% and then at the weight; tenths
specificationPoints(countScore, multipliers, w) ==
    LET specScore == Scaled(SubScorePoints(OrZero(countScore), w),
                            multipliers.technicalSpecifications)
    IN  Min(10 * w, Min(15 * w, 10 * specScore))

\* Dimensions: a flat 1.3 under `need`, capped at the weight; tenths
dimensionsPoints_uncapped(hasDimensions, context, w) ==
    LET base == IF Truthy(hasDimensions) THEN w ELSE 0
    IN  10 * (IF context = "need" THEN MathRound(base * 13, 10) ELSE base)

dimensionsPoints_cappedBeforeBoost(hasDimensions, context, w) ==
    LET base == Min(w, IF Truthy(hasDimensions) THEN w ELSE 0)
    IN  10 * (IF context = "need" THEN MathRound(base * 13, 10) ELSE base)

dimensionsPoints(hasDimensions, context, w) ==
    LET base == IF Truthy(hasDimensions) THEN w ELSE 0
        dimensionsScore == IF context = "need" THEN MathRound(base * 13, 10) ELSE base
    IN  Min(10 * w, 10 * dimensionsScore)

\* Warranty: scaled, capped at the weight; tenths
warrantyPoints_uncapped(hasWarranty, multipliers, w) ==
    10 * Scaled(IF Truthy(hasWarranty) THEN w ELSE 0, multipliers.warrantyInfo)

warrantyPoints(hasWarranty, multipliers, w) ==
    Min(10 * w, 10 * Scaled(IF Truthy(hasWarranty) THEN w ELSE 0, multipliers.warrantyInfo))

\* Compatibility: scaled, capped at twice the weight; tenths
compatibilityPoints_cappedAtWeight(hasCompatibility, multipliers, w) ==
    Min(10 * w, 10 * Scaled(IF Truthy(hasCompatibility) THEN w ELSE 0,
                            multipliers.compatibilityInfo))

compatibilityPoints(hasCompatibility, multipliers, w) ==
    Min(20 * w, 10 * Scaled(IF Truthy(hasCompatibility) THEN w ELSE 0,
                            multipliers.compatibilityInfo))

\* `count >= pass ? 'pass' : count >= warn ? 'warning' : 'fail'`
CountStatus(count, pass, warn) ==
    IF count >= pass THEN "pass" ELSE IF count >= warn THEN "warning" ELSE "fail"

BoolStatus(b) == IF Truthy(b) THEN "pass" ELSE "fail"

scoreContentQuality(this, data) ==
    LET weights == FACTOR_WEIGHTS.contentQuality
        desc == data.description
        specs == data.specifications
        features == data.features
        faq == data.faq
        details == data.productDetails
        wordCount == OrZero(desc.wordCount)
        descScore == SubScorePoints(OrZero(desc.lengthScore), weights.descriptionLength)
        descQualityScore ==
            descriptionQualityScore(desc, this.multipliers, weights.descriptionQuality)
        specCount == OrZero(specs.count)
        featureCount == OrZero(features.count)
        featureScore == SubScorePoints(OrZero(features.countScore), weights.featureCount)
        faqCount == OrZero(faq.count)
        faqScore == SubScorePoints(OrZero(faq.countScore), weights.faqPresence)
        factors ==
            << Factor("Description Length", CountStatus(wordCount, 100, 50),
                      10 * descScore, 10 * weights.descriptionLength, FALSE, FALSE),
               Factor("Description Quality",
                      IF 10 * descQualityScore >= 7 * weights.descriptionQuality
                      THEN "pass" ELSE "warning",
                      10 * descQualityScore, 10 * weights.descriptionQuality, FALSE, TRUE),
               Factor("Specifications", CountStatus(specCount, 5, 3),
                      specificationPoints(specs.countScore, this.multipliers,
                                          weights.specificationCount),
                      10 * weights.specificationCount, FALSE, TRUE),
               Factor("Features List", CountStatus(featureCount, 5, 3),
                      10 * featureScore, 10 * weights.featureCount, FALSE, FALSE),
               Factor("FAQ Section", CountStatus(faqCount, 3, 1),
                      10 * faqScore, 10 * weights.faqPresence, FALSE, FALSE),
               Factor("Dimensions/Size", BoolStatus(details.hasDimensions),
                      dimensionsPoints(details.hasDimensions, this.context, weights.dimensions),
                      10 * weights.dimensions, FALSE, this.context = "need"),
               Factor("Materials", BoolStatus(details.hasMaterials),
                      IF Truthy(details.hasMaterials) THEN 10 * weights.materials ELSE 0,
                      10 * weights.materials, FALSE, FALSE),
               Factor("Care Instructions", BoolStatus(details.hasCareInstructions),
                      IF Truthy(details.hasCareInstructions)
                      THEN 10 * weights.careInstructions ELSE 0,
                      10 * weights.careInstructions, FALSE, FALSE),
               Factor("Warranty Information", BoolStatus(details.hasWarranty),
                      warrantyPoints(details.hasWarranty, this.multipliers, weights.warrantyInfo),
                      10 * weights.warrantyInfo, FALSE, TRUE),
               Factor("Compatibility Information", BoolStatus(details.hasCompatibility),
                      compatibilityPoints(details.hasCompatibility, this.multipliers,
                                          weights.compatibilityInfo),
                      10 * weights.compatibilityInfo, FALSE, TRUE) >>
    IN  [score |-> clampScore(SumPoints(factors)), maxScore |-> 1000,
         factors |-> factors, weight |-> CATEGORY_WEIGHTS.contentQuality,
         categoryName |-> "Content Depth & Quality"]

(***************************************************************************)
(* ScoringEngine.scoreContentStructure                                     *)
(***************************************************************************)
\* `sub.score ? Math.round((sub.score / 100) * w) : 0`, in tenths
SubScoreFactor(name, status, subScore, w) ==
    Factor(name, status, 10 * SubScorePoints(OrZero(subScore), w), 10 * w, FALSE, FALSE)

\* Heading Hierarchy: [status, points]
headingHierarchy(hierarchyValid, w) ==
    IF Truthy(hierarchyValid) THEN [status |-> "pass", points |-> 10 * w]
    ELSE [status |-> "warning", points |-> 5 * w]

scoreContentStructure(data) ==
    LET weights == FACTOR_WEIGHTS.contentStructure
        headings == data.headings
        semantic == data.semanticHTML
        ratio == data.contentRatio
        tables == data.tables
        lists == data.lists
        a11y == data.accessibility
        images == data.images
        js == data.jsDependency
        hasSingleH1 == Truthy(headings.hasSingleH1)
        hasH1 == Truthy(headings.hasH1)
        hierarchy == headingHierarchy(headings.hierarchyValid, weights.headingHierarchy)
        primaryHasAlt == Truthy(images.primaryImageHasAlt)
        altCoverage == OrZero(images.altCoverage)
        allAltScore == MathRound(altCoverage * weights.allImagesAlt, 100)
        jsScore == IF js.score > 0 THEN SubScorePoints(js.score, weights.jsDependency)
                   ELSE weights.jsDependency
        factors ==
            << Factor("H1 Heading",
                      IF hasSingleH1 THEN "pass" ELSE IF hasH1 THEN "warning" ELSE "fail",
                      IF hasSingleH1 THEN 10 * weights.h1Presence
                      ELSE IF hasH1 THEN 5 * weights.h1Presence ELSE 0,
                      10 * weights.h1Presence, FALSE, FALSE),
               Factor("Heading Hierarchy", hierarchy.status, hierarchy.points,
                      10 * weights.headingHierarchy, FALSE, FALSE),
               SubScoreFactor("Semantic HTML",
                      IF Truthy(semantic.hasMain) THEN "pass"
                      ELSE IF Truthy(semantic.hasArticle) THEN "warning" ELSE "fail",
                      semantic.score, weights.semanticHTML),
               SubScoreFactor("Content-to-Chrome Ratio", CountStatus(ratio.ratio, 50, 30),
                      ratio.score, weights.contentRatio),
               SubScoreFactor("Table Structure",
                      IF Truthy(tables.hasProperTables) THEN "pass"
                      ELSE IF tables.tableCount > 0 THEN "warning" ELSE "fail",
                      tables.score, weights.tableStructure),
               SubScoreFactor("List Structure", BoolStatus(lists.hasProperLists),
                      lists.score, weights.listStructure),
               Factor("ARIA Labels", IF a11y.ariaLabels > 0 THEN "pass" ELSE "fail",
                      IF a11y.ariaLabels > 0 THEN 10 * weights.ariaLabels ELSE 0,
                      10 * weights.ariaLabels, FALSE, FALSE),
               Factor("Primary Image Alt Text", IF primaryHasAlt THEN "pass" ELSE "fail",
                      IF primaryHasAlt THEN 10 * weights.primaryImageAlt ELSE 0,
                      10 * weights.primaryImageAlt, FALSE, FALSE),
               Factor("Image Alt Coverage", CountStatus(altCoverage, 90, 50),
                      10 * allAltScore, 10 * weights.allImagesAlt, FALSE, FALSE),
               Factor("JavaScript Dependency",
                      IF js.dependencyLevel = "low" THEN "pass"
                      ELSE IF js.dependencyLevel = "medium" THEN "warning" ELSE "fail",
                      10 * jsScore, 10 * weights.jsDependency, FALSE, FALSE) >>
    IN  [score |-> clampScore(SumPoints(factors)), maxScore |-> 1000,
         factors |-> factors, weight |-> CATEGORY_WEIGHTS.contentStructure,
         categoryName |-> "Content Structure & Accessibility"]

(***************************************************************************)
(* ScoringEngine.scoreAuthorityTrust                                       *)
(***************************************************************************)
\* building `details` calls certs.items.slice / awards.items.slice whenever
\* the count is positive
throwsAuthorityTrust(data) ==
    \/ data.certifications.count > 0 /\ data.certifications.items = "undefined"
    \/ data.awards.count > 0 /\ data.awards.items = "undefined"

\* Review Count: scaled, capped at 150% of the weight; tenths
reviewCountPoints(countScore, multipliers, w) ==
    Min(15 * w, 10 * Scaled(SubScorePoints(OrZero(countScore), w), multipliers.reviewCount))

\* Average Rating: scaled, capped at the weight; tenths
averageRatingPoints_uncapped(ratingScore, multipliers, w) ==
    10 * Scaled(SubScorePoints(OrZero(ratingScore), w), multipliers.reviewRating)

averageRatingPoints(ratingScore, multipliers, w) ==
    Min(10 * w, 10 * Scaled(SubScorePoints(OrZero(ratingScore), w), multipliers.reviewRating))

\* Review Recency: [status, points]
reviewRecency(hasRecentReviews, w) ==
    IF hasRecentReviews # "false" THEN [status |-> "pass", points |-> 10 * w]
    ELSE [status |-> "warning", points |-> 5 * w]

\* Certifications: scaled, capped at 160% of the weight; tenths
certificationPoints(score, multipliers, w) ==
    Min(16 * w, 10 * Scaled(SubScorePoints(OrZero(score), w), multipliers.certifications))

scoreAuthorityTrust(this, data) ==
    LET weights == FACTOR_WEIGHTS.authorityTrust
        reviews == data.reviews
        brand == data.brand
        certs == data.certifications
        awards == data.awards
        recency == reviewRecency(reviews.hasRecentReviews, weights.reviewRecency)
        factors ==
            << Factor("Review Count", CountStatus(reviews.count, 50, 10),
                      reviewCountPoints(reviews.countScore, this.multipliers, weights.reviewCount),
                      10 * weights.reviewCount, FALSE, TRUE),
               \* averageRating in tenths of a star
               Factor("Average Rating", CountStatus(reviews.averageRating, 40, 35),
                      averageRatingPoints(reviews.ratingScore, this.multipliers,
                                          weights.averageRating),
                      10 * weights.averageRating, FALSE, TRUE),
               Factor("Review Recency", recency.status, recency.points,
                      10 * weights.reviewRecency, FALSE, FALSE),
               SubScoreFactor("Review Depth", CountStatus(reviews.averageReviewLength, 100, 50),
                      reviews.depthScore, weights.reviewDepth),
               SubScoreFactor("Brand Clarity",
                      IF brand.clarity = "excellent" THEN "pass"
                      ELSE IF brand.clarity = "good" THEN "warning" ELSE "fail",
                      brand.score, weights.brandClarity),
               Factor("Certifications", IF certs.count > 0 THEN "pass" ELSE "fail",
                      certificationPoints(certs.score, this.multipliers, weights.certifications),
                      10 * weights.certifications, FALSE, TRUE),
               Factor("Awards", IF awards.count > 0 THEN "pass" ELSE "fail",
                      IF awards.count > 0 THEN 10 * weights.awards ELSE 0,
                      10 * weights.awards, FALSE, FALSE) >>
    IN  [score |-> clampScore(SumPoints(factors)), maxScore |-> 1000,
         factors |-> factors, weight |-> CATEGORY_WEIGHTS.authorityTrust,
         categoryName |-> "Authority & Trust Signals"]

(***************************************************************************)
(* ScoringEngine constructor and calculateScore                            *)
(***************************************************************************)
\* `constructor(context = 'hybrid')`: the default applies to undefined only
ScoringEngine_fallbackWant(context) ==
    LET c == IF context = "undefined" THEN "hybrid" ELSE context
    IN  [context |-> c,
         multipliers |-> IF c \in DOMAIN CONTEXT_MULTIPLIERS
                         THEN CONTEXT_MULTIPLIERS[c] ELSE CONTEXT_MULTIPLIERS.want]

ScoringEngine(context) ==
    LET c == IF context = "undefined" THEN "hybrid" ELSE context
    IN  [context |-> c,
         multipliers |-> IF c \in DOMAIN CONTEXT_MULTIPLIERS
                         THEN CONTEXT_MULTIPLIERS[c] ELSE CONTEXT_MULTIPLIERS.hybrid]

\* the five category scores, as calculateScore builds them
categoryScoresOf(this, data, iv) ==
    [structuredData |-> scoreStructuredData(data.structuredData),
     protocolMeta |-> scoreProtocolMeta(data.metaTags, iv),
     contentQuality |-> scoreContentQuality(this, data.contentQuality),
     contentStructure |-> scoreContentStructure(data.contentStructure),
     authorityTrust |-> scoreAuthorityTrust(this, data.trustSignals)]

\* the weighted sum, in units of 1/1000 point
weightedSum_minusAuthorityTrust(categoryScores) ==
    categoryScores.structuredData.score * CATEGORY_WEIGHTS.structuredData
    + categoryScores.protocolMeta.score * CATEGORY_WEIGHTS.protocolMeta
    + categoryScores.contentQuality.score * CATEGORY_WEIGHTS.contentQuality
    + categoryScores.contentStructure.score * CATEGORY_WEIGHTS.contentStructure
    - categoryScores.authorityTrust.score * CATEGORY_WEIGHTS.authorityTrust

weightedSum_roundedPerCategory(categoryScores) ==
    LET c(k) == 10 * MathRound(categoryScores[k].score, 10) * CATEGORY_WEIGHTS[k]
    IN  c("structuredData") + c("protocolMeta") + c("contentQuality")
        + c("contentStructure") + c("authorityTrust")

weightedSum(categoryScores) ==
    categoryScores.structuredData.score * CATEGORY_WEIGHTS.structuredData
    + categoryScores.protocolMeta.score * CATEGORY_WEIGHTS.protocolMeta
    + categoryScores.contentQuality.score * CATEGORY_WEIGHTS.contentQuality
    + categoryScores.contentStructure.score * CATEGORY_WEIGHTS.contentStructure
    + categoryScores.authorityTrust.score * CATEGORY_WEIGHTS.authorityTrust

\* Math.round of the weighted sum.  The products score * 0.20 and score * 0.15
\* are inexact in double precision, so a sum that is mathematically k + 0.5
\* is rounded to k or to k + 1; tieUp says which.
totalScoreOf(categoryScores, tieUp) ==
    LET sum == weightedSum(categoryScores)
    IN  IF sum % 1000 = 500 /\ ~tieUp THEN sum \div 1000
        ELSE MathRound(sum, 1000)

throwsCalculateScore(data) ==
    throwsStructuredData(data.structuredData) \/ throwsAuthorityTrust(data.trustSignals)

\* the ScoreResult (the timestamp is not kept)
calculateScore(this, data, iv, tieUp) ==
    LET categoryScores == categoryScoresOf(this, data, iv)
        totalScore == totalScoreOf(categoryScores, tieUp)
        grade == getGrade(totalScore)
    IN  [totalScore |-> totalScore, grade |-> grade,
         gradeDescription |-> getGradeDescription(grade),
         context |-> this.context, categoryScores |-> categoryScores]

\* the categories in the order calculateScore enters them into categoryScores
CategoryOrder ==
    <<"structuredData", "protocolMeta", "contentQuality", "contentStructure",
      "authorityTrust">>

(***************************************************************************)
(* grading.js: getCriticalIssues                                           *)
(***************************************************************************)
RECURSIVE criticalOf_anyStatus(_, _)
criticalOf_anyStatus(categoryName, factors) ==
    IF factors = <<>> THEN <<>>
    ELSE LET factor == Head(factors)
         IN  (IF factor.critical
              THEN << [category |-> categoryName, factor |-> factor.name,
                       impact |-> "high"] >>
              ELSE <<>>) \o criticalOf_anyStatus(categoryName, Tail(factors))

RECURSIVE criticalOf(_, _)
criticalOf(categoryName, factors) ==
    IF factors = <<>> THEN <<>>
    ELSE LET factor == Head(factors)
         IN  (IF factor.critical /\ factor.status = "fail"
              THEN << [category |-> categoryName, factor |-> factor.name,
                       impact |-> "high"] >>
              ELSE <<>>) \o criticalOf(categoryName, Tail(factors))

getCriticalIssues(categoryScores) ==
    LET of(k) == criticalOf(categoryScores[k].categoryName, categoryScores[k].factors)
    IN  of("structuredData") \o of("protocolMeta") \o of("contentQuality")
        \o of("contentStructure") \o of("authorityTrust")

(***************************************************************************)
(* grading.js: getCategoryScoreSummary                                     *)
(***************************************************************************)
\* factors.filter(f => f.status === status).length
statusCount(factors, status) ==
    Len(SelectSeq(factors, LAMBDA f : f.status = status))

\* the summary of one category; weightedScore in thousandths of a point
categorySummary(key, data) ==
    [key |-> key, name |-> data.categoryName, score |-> data.score,
     weight |-> data.weight, weightedScore |-> data.score * data.weight,
     passCount |-> statusCount(data.factors, "pass"),
     failCount |-> statusCount(data.factors, "fail"),
     warningCount |-> statusCount(data.factors, "warning"),
     totalFactors |-> Len(data.factors)]

\* Array.prototype.sort is stable: an element goes behind the elements that
\* came before it and that the comparator does not put after it
RECURSIVE insertByScore_descending(_, _)
insertByScore_descending(sorted, a) ==
    IF sorted = <<>> THEN << a >>
    ELSE IF a.score - Head(sorted).score > 0 THEN << a >> \o sorted
    ELSE << Head(sorted) >> \o insertByScore_descending(Tail(sorted), a)

RECURSIVE insertByScore(_, _)
insertByScore(sorted, a) ==
    IF sorted = <<>> THEN << a >>
    ELSE IF a.score - Head(sorted).score < 0 THEN << a >> \o sorted
    ELSE << Head(sorted) >> \o insertByScore(Tail(sorted), a)

\* .sort((a, b) => a.score - b.score)
RECURSIVE sortByScore(_)
sortByScore(summaries) ==
    IF summaries = <<>> THEN <<>>
    ELSE insertByScore(sortByScore(SubSeq(summaries, 1, Len(summaries) - 1)),
                       summaries[Len(summaries)])

getCategoryScoreSummary(categoryScores) ==
    sortByScore([i \in 1..Len(CategoryOrder) |->
                    categorySummary(CategoryOrder[i], categoryScores[CategoryOrder[i]])])

(***************************************************************************)
(* The recommendation engine (recommend), as the specification describes   *)
(* it in section 4.4: its source is not part of the files at hand.         *)
(***************************************************************************)
\* the rule table, keyed by factor name: the effort of the remediation
RECOMMENDATION_RULES ==
    [name \in {"Product Schema", "Offer Schema", "og:image Present", "og:image Format",
               "Robots Allows Indexing", "og:title", "Meta Description",
               "Description Length", "Description Quality", "H1 Heading",
               "Heading Hierarchy", "Review Count", "Average Rating"} |->
        IF name \in {"Description Length", "Description Quality", "Review Count",
                     "Average Rating"}
        THEN "high" ELSE "low"]

\* the generic remediation of a factor that has no rule
DEFAULT_RULE == [remediation |-> "default", effort |-> "medium"]

ruleFor(name) ==
    IF name \in DOMAIN RECOMMENDATION_RULES
    THEN [remediation |-> "rule", effort |-> RECOMMENDATION_RULES[name]]
    ELSE DEFAULT_RULE

\* the impact tier, from the critical flag and the point gap
impactOf(factor) ==
    IF factor.critical THEN "high"
    ELSE IF 2 * (factor.maxPoints - factor.points) >= factor.maxPoints THEN "medium"
    ELSE "low"

impactRank(impact) == CASE impact = "high" -> 1 [] impact = "medium" -> 2 [] OTHER -> 3

\* the recommendations of one category, in factor evaluation order
RECURSIVE recommendationsOf(_, _)
recommendationsOf(categoryName, factors) ==
    IF factors = <<>> THEN <<>>
    ELSE LET factor == Head(factors)
         IN  (IF factor.status \in {"warning", "fail"}
              THEN << [category |-> categoryName, factor |-> factor.name,
                       impact |-> impactOf(factor),
                       pointGap |-> factor.maxPoints - factor.points,
                       remediation |-> ruleFor(factor.name).remediation,
                       effort |-> ruleFor(factor.name).effort] >>
              ELSE <<>>) \o recommendationsOf(categoryName, Tail(factors))

\* a comes strictly before b: higher impact, or the same impact and a larger gap
ranksBefore(a, b) ==
    \/ impactRank(a.impact) < impactRank(b.impact)
    \/ impactRank(a.impact) = impactRank(b.impact) /\ a.pointGap > b.pointGap

\* stable insertion: behind everything it does not strictly rank before
RECURSIVE insertByPriority_gapAscending(_, _)
insertByPriority_gapAscending(sorted, a) ==
    IF sorted = <<>> THEN << a >>
    ELSE IF \/ impactRank(a.impact) < impactRank(Head(sorted).impact)
            \/ /\ impactRank(a.impact) = impactRank(Head(sorted).impact)
               /\ a.pointGap < Head(sorted).pointGap
         THEN << a >> \o sorted
    ELSE << Head(sorted) >> \o insertByPriority_gapAscending(Tail(sorted), a)

RECURSIVE insertByPriority(_, _)
insertByPriority(sorted, a) ==
    IF sorted = <<>> THEN << a >>
    ELSE IF ranksBefore(a, Head(sorted)) THEN << a >> \o sorted
    ELSE << Head(sorted) >> \o insertByPriority(Tail(sorted), a)

RECURSIVE sortByPriority(_)
sortByPriority(recs) ==
    IF recs = <<>> THEN <<>>
    ELSE insertByPriority(sortByPriority(SubSeq(recs, 1, Len(recs) - 1)), recs[Len(recs)])

recommend(scoreResult) ==
    LET of(k) == recommendationsOf(scoreResult.categoryScores[k].categoryName,
                                   scoreResult.categoryScores[k].factors)
        sorted == sortByPriority(of("structuredData") \o of("protocolMeta")
                                 \o of("contentQuality") \o of("contentStructure")
                                 \o of("authorityTrust"))
    IN  [i \in 1..Len(sorted) |->
            [category |-> sorted[i].category, factor |-> sorted[i].factor,
             impact |-> sorted[i].impact, pointGap |-> sorted[i].pointGap,
             remediation |-> sorted[i].remediation, effort |-> sorted[i].effort,
             priorityRank |-> i]]

(***************************************************************************)
(* storage-manager.js                                                      *)
(*   - a string is "" when it is undefined, null or empty (all falsy);     *)
(*   - an absent scoreResult is NoResult, its fields read as undefined     *)
(*     (score -1, grade and context "");                                   *)
(*   - the id, Date.now().toString(), is kept as the number.               *)
(***************************************************************************)
MAX_HISTORY == 100

STORAGE_QUOTA_BYTES == 10 * 1024 * 1024

\* 0.8, in tenths
QUOTA_WARNING_THRESHOLD == 8

Max(a, b) == IF a >= b THEN a ELSE b

ValidUrl == "https://shop.example/item"

\* new URL(url).hostname throws a TypeError unless url is a valid URL
throwsURL(url) == url # ValidUrl

hostname(url) == "shop.example"

\* a || b on strings
OrElse(a, b) == IF a # "" THEN a ELSE b

\* pruneIfNearQuota: the history it leaves in the store; bytesUsed is what
\* getBytesInUse reports, -1 when it rejects (the error is caught)
pruneIfNearQuota(stored, bytesUsed) ==
    IF bytesUsed >= 0 /\ 10 * bytesUsed >= QUOTA_WARNING_THRESHOLD * STORAGE_QUOTA_BYTES
    THEN LET pruneCount == Max(1, (Len(stored) * 2) \div 10)
         IN  SubSeq(stored, 1, Max(0, Len(stored) - pruneCount))
    ELSE stored

\* what is stored of one category
categoryEntry_whole(data) == data

categoryEntry(data) == [score |-> 10 * MathRound(data.score, 10), name |-> data.categoryName]

\* the evaluation of `domain` builds a URL when pageInfo carries no domain
throwsSaveAnalysis(analysis) ==
    /\ (IF analysis.pageInfo.given THEN analysis.pageInfo.domain ELSE "") = ""
    /\ throwsURL(OrElse(analysis.url,
                        IF analysis.pageInfo.given THEN analysis.pageInfo.url ELSE ""))

\* the entry saveAnalysis builds; id and timestamp are two readings of the clock
historyEntry(analysis, id, timestamp) ==
    LET pageUrl == IF analysis.pageInfo.given THEN analysis.pageInfo.url ELSE ""
        pageTitle == IF analysis.pageInfo.given THEN analysis.pageInfo.title ELSE ""
        pageDomain == IF analysis.pageInfo.given THEN analysis.pageInfo.domain ELSE ""
        scoreResult == analysis.scoreResult
        recs == IF analysis.hasRecommendations THEN analysis.recommendations ELSE <<>>
    IN  [id |-> id,
         url |-> OrElse(analysis.url, pageUrl),
         title |-> OrElse(pageTitle, "Unknown Page"),
         domain |-> IF pageDomain # "" THEN pageDomain
                    ELSE hostname(OrElse(analysis.url, pageUrl)),
         score |-> scoreResult.totalScore,
         grade |-> scoreResult.grade,
         context |-> scoreResult.context,
         timestamp |-> timestamp,
         categoryScores |->
            [key \in DOMAIN scoreResult.categoryScores |->
                categoryEntry(scoreResult.categoryScores[key])],
         recommendationCount |-> Len(recs),
         criticalIssues |-> Len(SelectSeq(recs, LAMBDA r : r.impact = "high"))]

\* history.unshift(entry), then the cut to MAX_HISTORY
unshiftTrimmed(stored, e) ==
    LET longer == << e >> \o stored
    IN  IF Len(longer) > MAX_HISTORY THEN SubSeq(longer, 1, MAX_HISTORY) ELSE longer

(***************************************************************************)
(* The collector's heading analysis; counts[l] is the number of h<l>       *)
(* elements of the page                                                    *)
(***************************************************************************)
Bool(b) == IF b THEN "true" ELSE "false"

\* content-script.js, analyzeHeadings as inlined in the content script
analyzeHeadingsInline(counts) ==
    LET missingH1 == counts[1] = 0
        multipleH1 == counts[1] > 1
    IN  [hasH1 |-> Bool(counts[1] > 0), hasSingleH1 |-> Bool(counts[1] = 1),
         hierarchyValid |-> Bool(~missingH1 /\ ~multipleH1)]

\* content-structure.js, validateHeadingHierarchy: the value of `valid`
validateHeadingHierarchy(counts) ==
    LET levels == SelectSeq(<<1, 2, 3, 4, 5, 6>>, LAMBDA l : counts[l] > 0)
    IN  /\ counts[1] # 0
        /\ ~(counts[1] > 1)
        /\ \A i \in 2..Len(levels) : ~(levels[i] - levels[i - 1] > 1)

\* content-structure.js, analyzeHeadings of the extractor module
analyzeHeadings(counts) ==
    [hasH1 |-> Bool(counts[1] > 0), hasSingleH1 |-> Bool(counts[1] = 1),
     hierarchyValid |-> Bool(validateHeadingHierarchy(counts))]

(***************************************************************************)
(* The inputs: what the collector and the image verifier hand over         *)
(***************************************************************************)
SubScores == {(100 * k) \div SubScoreSteps : k \in 0..SubScoreSteps} \cup {58}

SubScoresU == SubScores \cup {-1}

Bool3 == {"true", "false", "undefined"}

Object3 == {"object", "null", "undefined"}

Contexts == {"want", "need", "hybrid", "premium", "undefined"}

NoVerification ==
    [given |-> FALSE, isWebP |-> FALSE, isValidFormat |-> FALSE, format |-> "null"]

Verifications ==
    {NoVerification} \cup
    [given : {TRUE}, isWebP : BOOLEAN, isValidFormat : BOOLEAN,
     format : {"webp", "jpeg", "unknown"}]

OgImages ==
    { <<>>,
      <<"a", ".", "j", "p", "g">>,
      <<"A", ".", "J", "P", "G">>,
      <<"a", ".", "p", "n", "g", "?", "w">>,
      <<"a", ".", "w", "e", "b", "p">>,
      <<"a", ".", "w", "e", "b", "p", "?", "w">>,
      <<"a", "/", "i", "m", "g">> }

\* a page on which every check fails
WorstPage ==
    [structuredData |->
        [schemas |-> [product |-> "null", offer |-> "null", aggregateRating |-> "null",
                      reviews |-> 0, faq |-> "null", faqQuestionCount |-> -1,
                      breadcrumb |-> "null", organization |-> "null",
                      brand |-> "null", images |-> 0]],
     metaTags |->
        [openGraph |-> [image |-> <<>>, title |-> 0, description |-> 0, type |-> ""],
         twitterCards |-> [card |-> "", image |-> 0],
         standard |-> [description |-> 0],
         canonical |-> [present |-> "false", matchesCurrentUrl |-> "null"],
         robots |-> [isBlocked |-> "true"]],
     contentQuality |->
        [description |-> [wordCount |-> 0, lengthScore |-> 0,
                          hasBenefitStatements |-> "false",
                          hasEmotionalLanguage |-> "false",
                          hasTechnicalTerms |-> "false"],
         specifications |-> [count |-> 0, countScore |-> 0],
         features |-> [count |-> 0, countScore |-> 0],
         faq |-> [count |-> 0, countScore |-> 0],
         productDetails |-> [hasDimensions |-> "false", hasMaterials |-> "false",
                             hasCareInstructions |-> "false", hasWarranty |-> "false",
                             hasCompatibility |-> "false"]],
     contentStructure |->
        [headings |-> [hasSingleH1 |-> "false", hasH1 |-> "false",
                       hierarchyValid |-> "false"],
         semanticHTML |-> [score |-> 0, hasMain |-> "false", hasArticle |-> "false"],
         contentRatio |-> [score |-> 0, ratio |-> 0],
         tables |-> [score |-> 0, hasProperTables |-> "false", tableCount |-> 0],
         lists |-> [score |-> 0, hasProperLists |-> "false"],
         accessibility |-> [ariaLabels |-> 0],
         images |-> [primaryImageHasAlt |-> "false", altCoverage |-> 0],
         jsDependency |-> [score |-> 0, dependencyLevel |-> "high"]],
     trustSignals |->
        [reviews |-> [count |-> 0, countScore |-> 0, averageRating |-> 0,
                      ratingScore |-> 0, hasRecentReviews |-> "false",
                      averageReviewLength |-> 0, depthScore |-> 0],
         brand |-> [score |-> 0, clarity |-> "missing"],
         certifications |-> [score |-> 0, count |-> 0, items |-> "array"],
         awards |-> [count |-> 0, items |-> "array"]]]

\* a page on which every check passes
BestPage ==
    [structuredData |->
        [schemas |-> [product |-> "object", offer |-> "object",
                      aggregateRating |-> "object", reviews |-> 2, faq |-> "object",
                      faqQuestionCount |-> 3, breadcrumb |-> "object",
                      organization |-> "object", brand |-> "object", images |-> 1]],
     metaTags |->
        [openGraph |-> [image |-> <<"a", ".", "j", "p", "g">>, title |-> 60,
                        description |-> 100, type |-> "product"],
         twitterCards |-> [card |-> "summary_large_image", image |-> 1],
         standard |-> [description |-> 120],
         canonical |-> [present |-> "true", matchesCurrentUrl |-> "true"],
         robots |-> [isBlocked |-> "false"]],
     contentQuality |->
        [description |-> [wordCount |-> 100, lengthScore |-> 100,
                          hasBenefitStatements |-> "true",
                          hasEmotionalLanguage |-> "true",
                          hasTechnicalTerms |-> "true"],
         specifications |-> [count |-> 5, countScore |-> 100],
         features |-> [count |-> 5, countScore |-> 100],
         faq |-> [count |-> 3, countScore |-> 100],
         productDetails |-> [hasDimensions |-> "true", hasMaterials |-> "true",
                             hasCareInstructions |-> "true", hasWarranty |-> "true",
                             hasCompatibility |-> "true"]],
     contentStructure |->
        [headings |-> [hasSingleH1 |-> "true", hasH1 |-> "true",
                       hierarchyValid |-> "true"],
         semanticHTML |-> [score |-> 100, hasMain |-> "true", hasArticle |-> "true"],
         contentRatio |-> [score |-> 100, ratio |-> 50],
         tables |-> [score |-> 100, hasProperTables |-> "true", tableCount |-> 1],
         lists |-> [score |-> 100, hasProperLists |-> "true"],
         accessibility |-> [ariaLabels |-> 2],
         images |-> [primaryImageHasAlt |-> "true", altCoverage |-> 100],
         jsDependency |-> [score |-> 100, dependencyLevel |-> "low"]],
     trustSignals |->
        [reviews |-> [count |-> 50, countScore |-> 100, averageRating |-> 40,
                      ratingScore |-> 100, hasRecentReviews |-> "true",
                      averageReviewLength |-> 100, depthScore |-> 100],
         brand |-> [score |-> 100, clarity |-> "excellent"],
         certifications |-> [score |-> 100, count |-> 1, items |-> "array"],
         awards |-> [count |-> 1, items |-> "array"]]]

\* sections that the collector did not deliver at all
MissingStructuredData ==
    [schemas |-> [product |-> "undefined", offer |-> "undefined",
                  aggregateRating |-> "undefined", reviews |-> -1, faq |-> "undefined",
                  faqQuestionCount |-> -1, breadcrumb |-> "undefined",
                  organization |-> "undefined", brand |-> "undefined", images |-> -1]]

MissingMetaTags ==
    [openGraph |-> [image |-> <<>>, title |-> 0, description |-> 0, type |-> ""],
     twitterCards |-> [card |-> "", image |-> 0],
     standard |-> [description |-> 0],
     canonical |-> [present |-> "undefined", matchesCurrentUrl |-> "undefined"],
     robots |-> [isBlocked |-> "undefined"]]

MissingContentQuality ==
    [description |-> [wordCount |-> -1, lengthScore |-> -1,
                      hasBenefitStatements |-> "undefined",
                      hasEmotionalLanguage |-> "undefined",
                      hasTechnicalTerms |-> "undefined"],
     specifications |-> [count |-> -1, countScore |-> -1],
     features |-> [count |-> -1, countScore |-> -1],
     faq |-> [count |-> -1, countScore |-> -1],
     productDetails |-> [hasDimensions |-> "undefined", hasMaterials |-> "undefined",
                         hasCareInstructions |-> "undefined", hasWarranty |-> "undefined",
                         hasCompatibility |-> "undefined"]]

MissingContentStructure ==
    [headings |-> [hasSingleH1 |-> "undefined", hasH1 |-> "undefined",
                   hierarchyValid |-> "undefined"],
     semanticHTML |-> [score |-> -1, hasMain |-> "undefined", hasArticle |-> "undefined"],
     contentRatio |-> [score |-> -1, ratio |-> -1],
     tables |-> [score |-> -1, hasProperTables |-> "undefined", tableCount |-> -1],
     lists |-> [score |-> -1, hasProperLists |-> "undefined"],
     accessibility |-> [ariaLabels |-> -1],
     images |-> [primaryImageHasAlt |-> "undefined", altCoverage |-> -1],
     jsDependency |-> [score |-> -1, dependencyLevel |-> "undefined"]]

MissingTrustSignals ==
    [reviews |-> [count |-> -1, countScore |-> -1, averageRating |-> -1,
                  ratingScore |-> -1, hasRecentReviews |-> "undefined",
                  averageReviewLength |-> -1, depthScore |-> -1],
     brand |-> [score |-> -1, clarity |-> "undefined"],
     certifications |-> [score |-> -1, count |-> -1, items |-> "undefined"],
     awards |-> [count |-> -1, items |-> "undefined"]]

\* every way in which the facts behind one factor (or one whole section) of a
\* page b = [data, iv] can come out
Departures(b) ==
    \* structured data
    { [b EXCEPT !.data.structuredData = MissingStructuredData] }
    \cup { [b EXCEPT !.data.structuredData.schemas.product = v] : v \in Object3 }
    \cup { [b EXCEPT !.data.structuredData.schemas.offer = v] : v \in Object3 }
    \cup { [b EXCEPT !.data.structuredData.schemas.aggregateRating = v] : v \in Object3 }
    \cup { [b EXCEPT !.data.structuredData.schemas.reviews = n] : n \in {-1, 0, 2} }
    \cup { [b EXCEPT !.data.structuredData.schemas.faq = v,
                     !.data.structuredData.schemas.faqQuestionCount = n]
           : v \in Object3, n \in {-1, 0, 3} }
    \cup { [b EXCEPT !.data.structuredData.schemas.breadcrumb = v] : v \in Object3 }
    \cup { [b EXCEPT !.data.structuredData.schemas.organization = v,
                     !.data.structuredData.schemas.brand = w]
           : v \in Object3, w \in Object3 }
    \cup { [b EXCEPT !.data.structuredData.schemas.images = n] : n \in {-1, 0, 1} }
    \* protocol and meta
    \cup { [b EXCEPT !.data.metaTags = MissingMetaTags] }
    \cup { [b EXCEPT !.data.metaTags.openGraph.image = u, !.iv = v]
           : u \in OgImages, v \in Verifications }
    \cup { [b EXCEPT !.data.metaTags.openGraph.title = n] : n \in {0, 1, 60, 61} }
    \cup { [b EXCEPT !.data.metaTags.openGraph.description = n]
           : n \in {0, 99, 100, 200, 201} }
    \cup { [b EXCEPT !.data.metaTags.openGraph.type = t]
           : t \in {"", "website", "product", "og:product"} }
    \cup { [b EXCEPT !.data.metaTags.twitterCards.card = t]
           : t \in {"", "summary", "summary_large_image"} }
    \cup { [b EXCEPT !.data.metaTags.twitterCards.image = n] : n \in {0, 1} }
    \cup { [b EXCEPT !.data.metaTags.canonical.present = v,
                     !.data.metaTags.canonical.matchesCurrentUrl = w]
           : v \in Bool3, w \in Bool3 \cup {"null"} }
    \cup { [b EXCEPT !.data.metaTags.standard.description = n]
           : n \in {0, 119, 120, 160, 161} }
    \cup { [b EXCEPT !.data.metaTags.robots.isBlocked = v] : v \in Bool3 }
    \* content quality
    \cup { [b EXCEPT !.data.contentQuality = MissingContentQuality] }
    \cup { [b EXCEPT !.data.contentQuality.description.wordCount = n,
                     !.data.contentQuality.description.lengthScore = x]
           : n \in {-1, 0, 50, 100}, x \in SubScoresU }
    \cup { [b EXCEPT !.data.contentQuality.description.hasBenefitStatements = u,
                     !.data.contentQuality.description.hasEmotionalLanguage = v,
                     !.data.contentQuality.description.hasTechnicalTerms = w]
           : u \in Bool3, v \in Bool3, w \in Bool3 }
    \cup { [b EXCEPT !.data.contentQuality.specifications = [count |-> n, countScore |-> x]]
           : n \in {-1, 0, 3, 5}, x \in SubScoresU }
    \cup { [b EXCEPT !.data.contentQuality.features = [count |-> n, countScore |-> x]]
           : n \in {-1, 0, 3, 5}, x \in SubScoresU }
    \cup { [b EXCEPT !.data.contentQuality.faq = [count |-> n, countScore |-> x]]
           : n \in {-1, 0, 1, 3}, x \in SubScoresU }
    \cup { [b EXCEPT !.data.contentQuality.productDetails.hasDimensions = v] : v \in Bool3 }
    \cup { [b EXCEPT !.data.contentQuality.productDetails.hasMaterials = v] : v \in Bool3 }
    \cup { [b EXCEPT !.data.contentQuality.productDetails.hasCareInstructions = v]
           : v \in Bool3 }
    \cup { [b EXCEPT !.data.contentQuality.productDetails.hasWarranty = v] : v \in Bool3 }
    \cup { [b EXCEPT !.data.contentQuality.productDetails.hasCompatibility = v]
           : v \in Bool3 }
    \* content structure
    \cup { [b EXCEPT !.data.contentStructure = MissingContentStructure] }
    \cup { [b EXCEPT !.data.contentStructure.headings.hasSingleH1 = u,
                     !.data.contentStructure.headings.hasH1 = v]
           : u \in Bool3, v \in Bool3 }
    \cup { [b EXCEPT !.data.contentStructure.headings.hierarchyValid = v] : v \in Bool3 }
    \cup { [b EXCEPT !.data.contentStructure.semanticHTML =
                        [score |-> x, hasMain |-> u, hasArticle |-> v]]
           : x \in SubScoresU, u \in Bool3, v \in Bool3 }
    \cup { [b EXCEPT !.data.contentStructure.contentRatio = [score |-> x, ratio |-> r]]
           : x \in SubScoresU, r \in {-1, 0, 30, 50} }
    \cup { [b EXCEPT !.data.contentStructure.tables =
                        [score |-> x, hasProperTables |-> u, tableCount |-> n]]
           : x \in SubScoresU, u \in Bool3, n \in {-1, 0, 1} }
    \cup { [b EXCEPT !.data.contentStructure.lists = [score |-> x, hasProperLists |-> u]]
           : x \in SubScoresU, u \in Bool3 }
    \cup { [b EXCEPT !.data.contentStructure.accessibility.ariaLabels = n]
           : n \in {-1, 0, 2} }
    \cup { [b EXCEPT !.data.contentStructure.images.primaryImageHasAlt = v] : v \in Bool3 }
    \cup { [b EXCEPT !.data.contentStructure.images.altCoverage = r]
           : r \in {-1, 0, 50, 90, 100} }
    \cup { [b EXCEPT !.data.contentStructure.jsDependency =
                        [score |-> x, dependencyLevel |-> l]]
           : x \in SubScoresU, l \in {"low", "medium", "high", "undefined"} }
    \* trust signals
    \cup { [b EXCEPT !.data.trustSignals = MissingTrustSignals] }
    \cup { [b EXCEPT !.data.trustSignals.reviews.count = n,
                     !.data.trustSignals.reviews.countScore = x]
           : n \in {-1, 0, 10, 50}, x \in SubScoresU }
    \cup { [b EXCEPT !.data.trustSignals.reviews.averageRating = n,
                     !.data.trustSignals.reviews.ratingScore = x]
           : n \in {-1, 0, 35, 40}, x \in SubScoresU }
    \cup { [b EXCEPT !.data.trustSignals.reviews.hasRecentReviews = v] : v \in Bool3 }
    \cup { [b EXCEPT !.data.trustSignals.reviews.averageReviewLength = n,
                     !.data.trustSignals.reviews.depthScore = x]
           : n \in {-1, 0, 50, 100}, x \in SubScoresU }
    \cup { [b EXCEPT !.data.trustSignals.brand = [score |-> x, clarity |-> c]]
           : x \in SubScoresU,
             c \in {"excellent", "good", "present", "missing", "undefined"} }
    \cup { [b EXCEPT !.data.trustSignals.certifications =
                        [score |-> x, count |-> n, items |-> i]]
           : x \in SubScoresU, n \in {-1, 0, 1}, i \in {"array", "undefined"} }
    \cup { [b EXCEPT !.data.trustSignals.awards = [count |-> n, items |-> i]]
           : n \in {-1, 0, 1}, i \in {"array", "undefined"} }

ValidJpeg == [given |-> TRUE, isWebP |-> FALSE, isValidFormat |-> TRUE, format |-> "jpeg"]

\* pages put together from the sections of the worst and of the best page and
\* from sections that were not delivered
SectionMixes ==
    { [data |-> [structuredData |-> sd, metaTags |-> mt, contentQuality |-> cq,
                 contentStructure |-> cs, trustSignals |-> ts],
       iv |-> v]
      : sd \in {WorstPage.structuredData, BestPage.structuredData},
        mt \in {WorstPage.metaTags, BestPage.metaTags, MissingMetaTags},
        cq \in {WorstPage.contentQuality, BestPage.contentQuality, MissingContentQuality},
        cs \in {WorstPage.contentStructure, BestPage.contentStructure,
                MissingContentStructure},
        ts \in {WorstPage.trustSignals, BestPage.trustSignals},
        v \in {NoVerification, ValidJpeg} }

\* the analysed pages: the section mixes, and every page that departs from the
\* worst or from the best page in the facts behind one factor
Inputs ==
    Departures([data |-> WorstPage, iv |-> NoVerification])
    \cup Departures([data |-> BestPage, iv |-> ValidJpeg])
    \cup SectionMixes

NoResult ==
    [totalScore |-> -1, grade |-> "", gradeDescription |-> "", context |-> "",
     categoryScores |-> <<>>]

NoEngine == [context |-> "", multipliers |-> <<>>]

NoEntry == [id |-> -1]

\* nothing reported, recommended or saved yet
NoReport == summary = <<>> /\ recommendations = <<>> /\ entry = NoEntry

\* the analysis of a page as the side panel hands it to saveAnalysis: its
\* url, the collector's pageInfo, and the recommendations
CompletePageInfo ==
    [given |-> TRUE, url |-> ValidUrl, title |-> "Item", domain |-> "shop.example"]

\* pageInfo as the collector returns it after an extraction error
ErrorPageInfo == [given |-> TRUE, url |-> ValidUrl, title |-> "Item", domain |-> ""]

NoPageInfo == [given |-> FALSE, url |-> "", title |-> "", domain |-> ""]

\* getBytesInUse: rejected, nothing stored, just below and at 80% of the quota
BytesInUse ==
    {-1, 0, (QUOTA_WARNING_THRESHOLD * STORAGE_QUOTA_BYTES) \div 10 - 1,
     (QUOTA_WARNING_THRESHOLD * STORAGE_QUOTA_BYTES) \div 10}

\* every shape of analysis into a store far from its quota, and the complete
\* and the bare analysis at every reading of the bytes in use and of the clock
SaveInputs ==
    { i \in [url : {"", ValidUrl, "not a url"},
             pageInfo : {CompletePageInfo, ErrorPageInfo, NoPageInfo,
                         [given |-> TRUE, url |-> "", title |-> "", domain |-> ""]},
             hasRecommendations : BOOLEAN,
             bytesUsed : BytesInUse,
             tick : {0, 1}] :
        \/ i.bytesUsed = 0 /\ i.tick = 0
        \/ /\ i.hasRecommendations
           /\ i.pageInfo \in {CompletePageInfo, NoPageInfo}
           /\ i.url \in {ValidUrl, ""} }

DefaultSaveInput ==
    [url |-> ValidUrl, pageInfo |-> CompletePageInfo, hasRecommendations |-> TRUE,
     bytesUsed |-> 0, tick |-> 0]

\* an entry written by an earlier save, at time id
OldEntry(id) ==
    [id |-> id, url |-> ValidUrl, title |-> "Item", domain |-> "shop.example",
     score |-> 50, grade |-> "F", context |-> "hybrid", timestamp |-> id,
     categoryScores |->
        [key \in {"structuredData", "protocolMeta", "contentQuality",
                  "contentStructure", "authorityTrust"} |->
            [score |-> 500, name |-> key]],
     recommendationCount |-> 3, criticalIssues |-> 1]

\* a stored history of n entries, the most recent first
OldHistory(n) == [i \in 1..n |-> OldEntry(n + 1 - i)]

HistoryLengths == {0, 1, 5, MAX_HISTORY - 1, MAX_HISTORY}

\* an empty store
EmptyStore == history = <<>> /\ clock = 1 /\ saveInput = DefaultSaveInput

\* the facts were handed over as they are, no page is read
NoPage == headingCounts = <<>> /\ collector = ""

\* the service worker was sent nothing
IdleWorker ==
    [phase |-> "idle", message |-> [type |-> "", urls |-> <<>>], returned |-> "",
     calls |-> <<>>, settled |-> <<>>, responses |-> <<>>]

(***************************************************************************)
(* The analysis: construct the engine, score, extract the critical issues  *)
(***************************************************************************)
InitAnalysis ==
    /\ contextArg \in Contexts
    /\ \E b \in Inputs :
        /\ extractedData = b.data
        /\ imageVerification = b.iv
        \* the direction matters on an exact tie only
        /\ ieeeTieUp \in
             IF weightedSum(categoryScoresOf(ScoringEngine(contextArg), b.data, b.iv))
                  % 1000 = 500
             THEN BOOLEAN ELSE {TRUE}
    /\ engine = NoEngine
    /\ result = NoResult
    /\ issues = <<>>
    /\ gradeArg = -1
    /\ gradeRet = ""
    /\ pc = "new"
    /\ NoReport /\ EmptyStore /\ NoPage /\ worker = IdleWorker /\ callers = <<>>

Construct ==
    /\ pc = "new"
    /\ engine' = ScoringEngine(contextArg)
    /\ pc' = "ready"
    /\ UNCHANGED <<contextArg, extractedData, imageVerification, ieeeTieUp, result,
                   issues, gradeArg, gradeRet,
                   reportVars>>

CalculateScore ==
    /\ pc = "ready"
    /\ IF throwsCalculateScore(extractedData)
       THEN /\ pc' = "threw"
            /\ UNCHANGED result
       ELSE /\ result' = calculateScore(engine, extractedData, imageVerification, ieeeTieUp)
            /\ pc' = "scored"
    /\ UNCHANGED <<contextArg, extractedData, imageVerification, ieeeTieUp, engine,
                   issues, gradeArg, gradeRet,
                   reportVars>>

GetCriticalIssues ==
    /\ pc = "scored"
    /\ issues' = getCriticalIssues(result.categoryScores)
    /\ pc' = "reported"
    /\ UNCHANGED <<contextArg, extractedData, imageVerification, ieeeTieUp, engine,
                   result, gradeArg, gradeRet,
                   reportVars>>

GetCategoryScoreSummary ==
    /\ pc = "reported"
    /\ summary' = getCategoryScoreSummary(result.categoryScores)
    /\ pc' = "summarized"
    /\ UNCHANGED <<contextArg, extractedData, imageVerification, ieeeTieUp, engine,
                   result, issues, gradeArg, gradeRet, recommendations, history,
                   entry, clock, saveInput,
                   headingCounts, collector, worker, callers>>

Recommend ==
    /\ pc = "summarized"
    /\ recommendations' = recommend(result)
    /\ pc' = "recommended"
    /\ UNCHANGED <<contextArg, extractedData, imageVerification, ieeeTieUp, engine,
                   result, issues, gradeArg, gradeRet, summary, history, entry,
                   clock, saveInput,
                   headingCounts, collector, worker, callers>>

\* saveAnalysis, from its first getHistory to the entry it returns
SaveAnalysis ==
    /\ pc \in {"recommended", "threw"}
    /\ LET analysis == [url |-> saveInput.url, pageInfo |-> saveInput.pageInfo,
                        scoreResult |-> result,
                        hasRecommendations |-> saveInput.hasRecommendations /\ pc = "recommended",
                        recommendations |-> recommendations]
           pruned == pruneIfNearQuota(history, saveInput.bytesUsed)
       IN  IF throwsSaveAnalysis(analysis)
           THEN /\ history' = pruned
                /\ pc' = "saveThrew"
                /\ UNCHANGED <<entry, clock>>
           ELSE /\ entry' = historyEntry(analysis, clock, clock + saveInput.tick)
                /\ history' = unshiftTrimmed(pruned, entry')
                /\ clock' = clock + saveInput.tick
                /\ pc' = "saved"
    /\ UNCHANGED <<contextArg, extractedData, imageVerification, ieeeTieUp, engine,
                   result, issues, gradeArg, gradeRet, summary, recommendations,
                   saveInput, headingCounts, collector, worker, callers>>

(***************************************************************************)
(* getGrade called on its own, on every integer score from 0 to 100        *)
(***************************************************************************)
InitGrade ==
    /\ contextArg = "hybrid"
    /\ extractedData = WorstPage
    /\ imageVerification = NoVerification
    /\ ieeeTieUp = TRUE
    /\ engine = NoEngine
    /\ result = NoResult
    /\ issues = <<>>
    /\ gradeArg \in 0..100
    /\ gradeRet = ""
    /\ pc = "grade"
    /\ NoReport /\ EmptyStore /\ NoPage /\ worker = IdleWorker /\ callers = <<>>

GetGrade ==
    /\ pc = "grade"
    /\ gradeRet' = getGrade(gradeArg)
    /\ pc' = "graded"
    /\ UNCHANGED <<contextArg, extractedData, imageVerification, ieeeTieUp, engine,
                   result, issues, gradeArg,
                   reportVars>>

(***************************************************************************)
(* An analysis saved into a store that holds earlier analyses              *)
(***************************************************************************)
ErrorRecord ==
    [structuredData |-> MissingStructuredData, metaTags |-> MissingMetaTags,
     contentQuality |-> MissingContentQuality,
     contentStructure |-> MissingContentStructure,
     trustSignals |-> MissingTrustSignals]

InitStorage ==
    /\ contextArg = "need"
    /\ extractedData \in {BestPage, WorstPage, ErrorRecord}
    /\ imageVerification = NoVerification
    /\ ieeeTieUp = TRUE
    /\ engine = NoEngine
    /\ result = NoResult
    /\ issues = <<>>
    /\ gradeArg = -1
    /\ gradeRet = ""
    /\ pc = "new"
    /\ NoReport /\ NoPage /\ worker = IdleWorker /\ callers = <<>>
    /\ \E n \in HistoryLengths :
        /\ history = OldHistory(n)
        \* the last save may have happened within this millisecond
        /\ clock \in {Max(1, n), n + 1}
    /\ saveInput \in SaveInputs
    /\ saveInput.bytesUsed > 0 => history # <<>>

(***************************************************************************)
(* The headings of a page, read by the collector and then scored           *)
(***************************************************************************)
HeadingCounts ==
    { counts \in [1..6 -> 0..MaxH1] : \A l \in 2..6 : counts[l] <= 1 }

Collectors == {"content-script", "content-structure"}

\* the page facts once its headings are analysed: a page at its best otherwise
PageFacts(counts, by) ==
    [BestPage EXCEPT !.contentStructure.headings =
        IF by = "content-script" THEN analyzeHeadingsInline(counts)
        ELSE analyzeHeadings(counts)]

InitHeadings ==
    /\ contextArg = "hybrid"
    /\ headingCounts \in HeadingCounts
    /\ collector \in Collectors
    /\ extractedData = BestPage
    /\ imageVerification = ValidJpeg
    /\ ieeeTieUp \in
         IF weightedSum(categoryScoresOf(ScoringEngine(contextArg),
                                         PageFacts(headingCounts, collector),
                                         imageVerification)) % 1000 = 500
         THEN BOOLEAN ELSE {TRUE}
    /\ engine = NoEngine
    /\ result = NoResult
    /\ issues = <<>>
    /\ gradeArg = -1
    /\ gradeRet = ""
    /\ pc = "page"
    /\ NoReport
    /\ history = <<>> /\ clock = 1 /\ saveInput = DefaultSaveInput
    /\ worker = IdleWorker /\ callers = <<>>

\* extractContentStructure: headings: analyzeHeadings()
AnalyzeHeadings ==
    /\ pc = "page"
    /\ extractedData' = PageFacts(headingCounts, collector)
    /\ pc' = "new"
    /\ UNCHANGED <<contextArg, imageVerification, ieeeTieUp, engine, result, issues,
                   gradeArg, gradeRet, reportVars>>

Init == InitAnalysis \/ InitGrade \/ InitStorage \/ InitHeadings

Next ==
    \/ Construct \/ CalculateScore \/ GetCriticalIssues \/ GetGrade
    \/ GetCategoryScoreSummary \/ Recommend \/ SaveAnalysis \/ AnalyzeHeadings

Spec == Init /\ [][Next]_vars
(***************************************************************************)
(* The service worker: verifyImageFormat and its message listener          *)
(***************************************************************************)
\* url.match(/\.ext(\?|$)/)
matchesExtension(url, ext) == endsWith(url, ext) \/ includes(url, ext \o <<"?">>)

\* contentType.includes(type), on the Content-Type values of the model
includesType(contentType, type) ==
    \/ contentType = type
    \/ contentType = "image/svg+xml" /\ type = "image/svg"
    \/ contentType = "image/png; charset=binary" /\ type = "image/png"

UnknownFormat == [format |-> "unknown", isWebP |-> FALSE, isValidFormat |-> FALSE]

\* the format read from the Content-Type header
contentTypeFormat_webpValid(contentType) ==
    IF includesType(contentType, "image/jpeg") \/ includesType(contentType, "image/jpg")
    THEN [format |-> "jpeg", isWebP |-> FALSE, isValidFormat |-> TRUE]
    ELSE IF includesType(contentType, "image/png")
    THEN [format |-> "png", isWebP |-> FALSE, isValidFormat |-> TRUE]
    ELSE IF includesType(contentType, "image/gif")
    THEN [format |-> "gif", isWebP |-> FALSE, isValidFormat |-> TRUE]
    ELSE IF includesType(contentType, "image/webp")
    THEN [format |-> "webp", isWebP |-> TRUE, isValidFormat |-> TRUE]
    ELSE IF includesType(contentType, "image/avif")
    THEN [format |-> "avif", isWebP |-> FALSE, isValidFormat |-> FALSE]
    ELSE IF includesType(contentType, "image/svg")
    THEN [format |-> "svg", isWebP |-> FALSE, isValidFormat |-> FALSE]
    ELSE UnknownFormat

contentTypeFormat(contentType) ==
    IF includesType(contentType, "image/jpeg") \/ includesType(contentType, "image/jpg")
    THEN [format |-> "jpeg", isWebP |-> FALSE, isValidFormat |-> TRUE]
    ELSE IF includesType(contentType, "image/png")
    THEN [format |-> "png", isWebP |-> FALSE, isValidFormat |-> TRUE]
    ELSE IF includesType(contentType, "image/gif")
    THEN [format |-> "gif", isWebP |-> FALSE, isValidFormat |-> TRUE]
    ELSE IF includesType(contentType, "image/webp")
    THEN [format |-> "webp", isWebP |-> TRUE, isValidFormat |-> FALSE]
    ELSE IF includesType(contentType, "image/avif")
    THEN [format |-> "avif", isWebP |-> FALSE, isValidFormat |-> FALSE]
    ELSE IF includesType(contentType, "image/svg")
    THEN [format |-> "svg", isWebP |-> FALSE, isValidFormat |-> FALSE]
    ELSE UnknownFormat

\* bytes[i] of a Uint8Array; -1 stands for undefined
byteAt(bytes, i) == IF i + 1 <= Len(bytes) THEN bytes[i + 1] ELSE -1

\* detectFormatFromMagicBytes returned null
NullMagic == [format |-> "null", isWebP |-> FALSE, isValidFormat |-> FALSE]

\* detectFormatFromMagicBytes once the range fetch and the reading of the body
\* have settled: null when either rejected, else by the signature
detectFormatFromMagicBytes(body) ==
    LET bytes == body.bytes
    IN
    IF body.rejected THEN NullMagic
    ELSE IF byteAt(bytes, 0) = 255 /\ byteAt(bytes, 1) = 216 /\ byteAt(bytes, 2) = 255
    THEN [format |-> "jpeg", isWebP |-> FALSE, isValidFormat |-> TRUE]
    ELSE IF /\ byteAt(bytes, 0) = 137 /\ byteAt(bytes, 1) = 80
            /\ byteAt(bytes, 2) = 78 /\ byteAt(bytes, 3) = 71
    THEN [format |-> "png", isWebP |-> FALSE, isValidFormat |-> TRUE]
    ELSE IF /\ byteAt(bytes, 0) = 82 /\ byteAt(bytes, 1) = 73
            /\ byteAt(bytes, 2) = 70 /\ byteAt(bytes, 3) = 70
            /\ byteAt(bytes, 8) = 87 /\ byteAt(bytes, 9) = 69
            /\ byteAt(bytes, 10) = 66 /\ byteAt(bytes, 11) = 80
    THEN [format |-> "webp", isWebP |-> TRUE, isValidFormat |-> FALSE]
    ELSE IF byteAt(bytes, 0) = 71 /\ byteAt(bytes, 1) = 73 /\ byteAt(bytes, 2) = 70
    THEN [format |-> "gif", isWebP |-> FALSE, isValidFormat |-> TRUE]
    ELSE IF /\ byteAt(bytes, 4) = 102 /\ byteAt(bytes, 5) = 116
            /\ byteAt(bytes, 6) = 121 /\ byteAt(bytes, 7) = 112
            \* the brand 'avif'
            /\ byteAt(bytes, 8) = 97 /\ byteAt(bytes, 9) = 118
            /\ byteAt(bytes, 10) = 105 /\ byteAt(bytes, 11) = 102
    THEN [format |-> "avif", isWebP |-> FALSE, isValidFormat |-> FALSE]
    ELSE NullMagic

\* the fallback on the extension in the URL
urlExtensionFormat(url) ==
    LET urlLower == toLowerCase(url)
    IN  IF \/ matchesExtension(urlLower, <<".", "j", "p", "g">>)
           \/ matchesExtension(urlLower, <<".", "j", "p", "e", "g">>)
        THEN [format |-> "jpeg", isWebP |-> FALSE, isValidFormat |-> TRUE]
        ELSE IF matchesExtension(urlLower, <<".", "p", "n", "g">>)
        THEN [format |-> "png", isWebP |-> FALSE, isValidFormat |-> TRUE]
        ELSE IF matchesExtension(urlLower, WebpExtension)
        THEN [format |-> "webp", isWebP |-> TRUE, isValidFormat |-> FALSE]
        ELSE IF matchesExtension(urlLower, <<".", "g", "i", "f">>)
        THEN [format |-> "gif", isWebP |-> FALSE, isValidFormat |-> TRUE]
        ELSE IF matchesExtension(urlLower, <<".", "a", "v", "i", "f">>)
        THEN [format |-> "avif", isWebP |-> FALSE, isValidFormat |-> FALSE]
        ELSE UnknownFormat

\* a JavaScript boolean as the model writes one that may also be undefined
Js(b) == IF b THEN "true" ELSE "false"

\* 5 MB, the limit of isSizeValid; sizes are kept in bytes, -1 stands for
\* null and -2 for a field the result does not have
SizeLimitBytes == 5 * 1024 * 1024

\* the result when HEAD answered with a status outside 200..299
notAccessibleResult(url, status) ==
    [url |-> url, accessible |-> "false", status |-> status,
     contentType |-> "undefined", format |-> "undefined", isWebP |-> "undefined",
     isValidFormat |-> "undefined", sizeInMB |-> -2, isSizeValid |-> "undefined",
     isValid |-> "false", error |-> "HTTP status", note |-> "undefined"]

\* the result of the Content-Type path, fmt being what the header or, failing
\* that, the magic bytes gave
contentTypeResult(url, head, fmt) ==
    \* contentLength ? parseInt(contentLength, 10) : null, and then
    \* sizeInBytes ? sizeInBytes / (1024 * 1024) : null
    LET sizeInMB == IF head.contentLength > 0 THEN head.contentLength ELSE -1
        isSizeValid == sizeInMB = -1 \/ sizeInMB < SizeLimitBytes
    IN  [url |-> url, accessible |-> "true", status |-> -2,
         contentType |-> head.contentType, format |-> fmt.format,
         isWebP |-> Js(fmt.isWebP), isValidFormat |-> Js(fmt.isValidFormat),
         sizeInMB |-> sizeInMB, isSizeValid |-> Js(isSizeValid),
         isValid |-> Js(fmt.isValidFormat /\ isSizeValid),
         error |-> "undefined", note |-> "undefined"]

\* the result when HEAD threw and the magic bytes gave the format
magicBytesResult(url, magicResult) ==
    [url |-> url, accessible |-> "true", status |-> -2, contentType |-> "undefined",
     format |-> magicResult.format, isWebP |-> Js(magicResult.isWebP),
     isValidFormat |-> Js(magicResult.isValidFormat), sizeInMB |-> -2,
     isSizeValid |-> "undefined", isValid |-> Js(magicResult.isValidFormat),
     error |-> "undefined", note |-> "Detected via magic bytes (CORS restricted HEAD)"]

\* the result when HEAD threw and the magic bytes gave nothing
urlExtensionResult(url) ==
    LET fmt == urlExtensionFormat(url)
    IN  [url |-> url, accessible |-> "false", status |-> -2,
         contentType |-> "undefined", format |-> fmt.format,
         isWebP |-> Js(fmt.isWebP), isValidFormat |-> Js(fmt.isValidFormat),
         sizeInMB |-> -2, isSizeValid |-> "undefined",
         isValid |-> Js(fmt.isValidFormat), error |-> "error.message",
         note |-> "Detected from URL extension (network request failed)"]

\* one call of verifyImageFormat at its first await: the HEAD request is out.
\* `probes` lists the probing steps the call has taken so far.
startVerify(url) ==
    [url |-> url, pc |-> "head", inCatch |-> FALSE,
     head |-> [rejected |-> TRUE, ok |-> FALSE, status |-> 0, contentType |-> "",
               contentLength |-> -1],
     probes |-> <<"HEAD">>, result |-> [url |-> <<>>]]

\* verifyImageFormat from the settling of the HEAD request to its next await
\* or its return
afterHead(call, head) ==
    IF head.rejected
    THEN \* catch (error): detectFormatFromMagicBytes sends the range request
         [call EXCEPT !.pc = "range", !.inCatch = TRUE,
                      !.probes = Append(@, "RANGE")]
    ELSE IF ~head.ok
    THEN [call EXCEPT !.pc = "done",
                      !.result = notAccessibleResult(call.url, head.status)]
    ELSE LET fmt == contentTypeFormat(head.contentType)
         IN  IF fmt.format = "unknown"
             THEN [call EXCEPT !.pc = "range", !.head = head,
                               !.probes = Append(@, "RANGE")]
             ELSE [call EXCEPT !.pc = "done", !.head = head,
                               !.result = contentTypeResult(call.url, head, fmt)]

\* verifyImageFormat from the return of detectFormatFromMagicBytes to its own
afterMagicBytes(call, magicResult) ==
    IF ~call.inCatch
    THEN [call EXCEPT !.pc = "done",
                      !.result = contentTypeResult(call.url, call.head,
                                    IF magicResult # NullMagic THEN magicResult
                                    ELSE UnknownFormat)]
    ELSE IF magicResult # NullMagic
    THEN [call EXCEPT !.pc = "done",
                      !.result = magicBytesResult(call.url, magicResult)]
    ELSE [call EXCEPT !.pc = "done", !.probes = Append(@, "EXT"),
                      !.result = urlExtensionResult(call.url)]

\* Promise.all: the results by position in the array it was given
promiseAll_settleOrder(calls) ==
    [k \in 1..Len(calls) |-> calls[worker.settled[k]].result]

promiseAll(calls) == [i \in 1..Len(calls) |-> calls[i].result]

\* what .then(sendResponse) hands over
responseTo(message, calls) ==
    IF message.type = "VERIFY_IMAGE_FORMAT"
    THEN [isArray |-> FALSE, results |-> << calls[1].result >>]
    ELSE [isArray |-> TRUE, results |-> promiseAll(calls)]

\* the most URLs in one VERIFY_MULTIPLE_IMAGES message
MaxUrls == 2

ImageUrls ==
    (OgImages \ {<<>>}) \cup {<<"a", ".", "g", "i", "f">>, <<"a", ".", "a", "v", "i", "f">>}

Messages ==
    { [type |-> "VERIFY_IMAGE_FORMAT", urls |-> << u >>] : u \in ImageUrls }
    \cup { [type |-> "VERIFY_MULTIPLE_IMAGES", urls |-> us]
           : us \in UNION { [1..n -> { <<"a", ".", "j", "p", "g">>,
                                         <<"a", ".", "w", "e", "b", "p", "?", "w">> }]
                            : n \in 1..MaxUrls } }

ContentTypes ==
    {"", "image/jpeg", "image/jpg", "image/png; charset=binary", "image/gif",
     "image/webp", "image/avif", "image/svg+xml", "application/octet-stream"}

\* how a HEAD request can settle: rejected (CORS, network), a status outside
\* 200..299, or 200 with a Content-Type and possibly a Content-Length
HeadOutcomes ==
    { [rejected |-> TRUE, ok |-> FALSE, status |-> 0, contentType |-> "",
        contentLength |-> -1] }
    \cup { [rejected |-> FALSE, ok |-> FALSE, status |-> s, contentType |-> "",
            contentLength |-> -1] : s \in {404, 405} }
    \cup { [rejected |-> FALSE, ok |-> TRUE, status |-> 200, contentType |-> ct,
            contentLength |-> n]
           : ct \in ContentTypes, n \in {-1, 0, SizeLimitBytes - 1, SizeLimitBytes} }

\* the network a message is answered by; a batch is run against HEAD
\* rejected, 404, a WebP by its Content-Type, and no Content-Type
HeadOutcomesOf(message) ==
    IF message.type = "VERIFY_IMAGE_FORMAT" THEN HeadOutcomes
    ELSE { h \in HeadOutcomes :
             /\ h.status # 405
             /\ h.ok => h.contentType \in {"", "image/webp"} /\ h.contentLength = -1 }

\* the first bytes of a body: JPEG, PNG, WebP, a RIFF file that is no WebP,
\* GIF, AVIF, another ISO media file, an HTML page, nothing
ByteSamples ==
    { <<255, 216, 255, 224>>,
      <<137, 80, 78, 71, 13, 10, 26, 10>>,
      <<82, 73, 70, 70, 0, 0, 0, 0, 87, 69, 66, 80>>,
      <<82, 73, 70, 70, 0, 0, 0, 0, 87, 65, 86, 69>>,
      <<71, 73, 70, 56, 57, 97>>,
      <<0, 0, 0, 28, 102, 116, 121, 112, 97, 118, 105, 102>>,
      <<0, 0, 0, 28, 102, 116, 121, 112, 104, 101, 105, 99>>,
      <<60, 33, 68, 79>>,
      <<>> }

\* how response.arrayBuffer() can settle
BodyOutcomes ==
    { [rejected |-> TRUE, bytes |-> <<>>] }
    \cup { [rejected |-> FALSE, bytes |-> b] : b \in ByteSamples }

\* for a batch: rejected, a JPEG, an HTML page
BodyOutcomesOf(message) ==
    IF message.type = "VERIFY_IMAGE_FORMAT" THEN BodyOutcomes
    ELSE { b \in BodyOutcomes :
             /\ b.bytes \in {<<>>, <<255, 216, 255, 224>>, <<60, 33, 68, 79>>}
             /\ (b.bytes = <<>> => b.rejected) }

InitVerify ==
    /\ contextArg = "hybrid"
    /\ extractedData = WorstPage
    /\ imageVerification = NoVerification
    /\ ieeeTieUp = TRUE
    /\ engine = NoEngine
    /\ result = NoResult
    /\ issues = <<>>
    /\ gradeArg = -1
    /\ gradeRet = ""
    /\ pc = "worker"
    /\ NoReport /\ EmptyStore /\ NoPage
    /\ \E m \in Messages :
        worker = [IdleWorker EXCEPT !.phase = "received", !.message = m]
    /\ callers = <<>>

\* the listener, cases VERIFY_IMAGE_FORMAT and VERIFY_MULTIPLE_IMAGES: every
\* verifyImageFormat runs up to its first await, the handlers are attached,
\* and the listener returns true
OnMessage ==
    /\ worker.phase = "received"
    /\ worker' = [worker EXCEPT
                    !.phase = "pending",
                    !.calls = [i \in 1..Len(worker.message.urls) |->
                                  startVerify(worker.message.urls[i])],
                    !.returned = "true"]

\* the HEAD request of call i settles
HeadSettles(i) ==
    /\ worker.phase = "pending"
    /\ i \in DOMAIN worker.calls
    /\ worker.calls[i].pc = "head"
    /\ \E head \in HeadOutcomesOf(worker.message) :
        LET next == afterHead(worker.calls[i], head)
        IN  worker' = [worker EXCEPT
                         !.calls[i] = next,
                         \* a call that returned has settled
                         !.settled = IF next.pc = "done" THEN Append(@, i) ELSE @]

\* the range request of call i settles: rejected, or with a response whose
\* body is then read
RangeSettles(i) ==
    /\ worker.phase = "pending"
    /\ i \in DOMAIN worker.calls
    /\ worker.calls[i].pc = "range"
    /\ \/ worker' = [worker EXCEPT
                         !.calls[i] = afterMagicBytes(worker.calls[i], NullMagic),
                         !.settled = Append(@, i)]
       \/ worker' = [worker EXCEPT !.calls[i].pc = "body"]

\* response.arrayBuffer() of call i settles
BodySettles(i) ==
    /\ worker.phase = "pending"
    /\ i \in DOMAIN worker.calls
    /\ worker.calls[i].pc = "body"
    /\ \E body \in BodyOutcomesOf(worker.message) :
        worker' = [worker EXCEPT
                     !.calls[i] = afterMagicBytes(worker.calls[i],
                                                  detectFormatFromMagicBytes(body)),
                     !.settled = Append(@, i)]

\* .then(sendResponse): every call has returned
SendResponse ==
    /\ worker.phase = "pending"
    /\ \A i \in DOMAIN worker.calls : worker.calls[i].pc = "done"
    /\ worker' = [worker EXCEPT
                    !.phase = "responded",
                    !.responses = Append(@, responseTo(worker.message, worker.calls))]

workerFrame ==
    UNCHANGED <<contextArg, extractedData, imageVerification, ieeeTieUp, engine,
                result, issues, gradeArg, gradeRet, pc, summary, recommendations,
                history, entry, clock, saveInput, headingCounts, collector, callers>>

NextVerify ==
    \/ OnMessage /\ workerFrame
    \/ \E i \in 1..MaxUrls : HeadSettles(i) /\ workerFrame
    \/ \E i \in 1..MaxUrls : RangeSettles(i) /\ workerFrame
    \/ \E i \in 1..MaxUrls : BodySettles(i) /\ workerFrame
    \/ SendResponse /\ workerFrame

SpecVerify == InitVerify /\ [][NextVerify]_vars

\* every fetch and every reading of a body settles, and a settled promise
\* runs its handlers
FairSpecVerify ==
    /\ SpecVerify
    /\ WF_vars(OnMessage /\ workerFrame)
    /\ \A i \in 1..MaxUrls :
        /\ WF_vars(HeadSettles(i) /\ workerFrame)
        /\ WF_vars(RangeSettles(i) /\ workerFrame)
        /\ WF_vars(BodySettles(i) /\ workerFrame)
    /\ WF_vars(SendResponse /\ workerFrame)
(***************************************************************************)
(* The storage manager under several callers: saveAnalysis, getAnalysis,   *)
(* deleteAnalysis and clearHistory, each split at its awaits               *)
(***************************************************************************)
\* the two calls that may be in flight together
Callers == {"first", "second"}

\* the clock may advance this many milliseconds while they run
MaxTicks == 1

\* usageRatio >= QUOTA_WARNING_THRESHOLD
nearQuota(bytesUsed) ==
    bytesUsed >= 0 /\ 10 * bytesUsed >= QUOTA_WARNING_THRESHOLD * STORAGE_QUOTA_BYTES

\* history.findIndex(a => a.id === id); 0 stands for -1
findIndex(stored, id) ==
    IF \E i \in DOMAIN stored : stored[i].id = id
    THEN CHOOSE i \in DOMAIN stored :
            /\ stored[i].id = id
            /\ \A j \in 1..(i - 1) : stored[j].id # id
    ELSE 0

\* history.find(a => a.id === id) || null
getAnalysis(stored, id) ==
    IF findIndex(stored, id) = 0 THEN NoEntry ELSE stored[findIndex(stored, id)]

\* history.splice(index, 1)
splice(stored, index) ==
    SubSeq(stored, 1, index - 1) \o SubSeq(stored, index + 1, Len(stored))

\* the analysis a caller saves: the page title tells the callers apart
analysisOf(c) ==
    [url |-> ValidUrl,
     pageInfo |-> [CompletePageInfo EXCEPT !.title = c],
     scoreResult |-> NoResult, hasRecommendations |-> FALSE, recommendations |-> <<>>]

\* the calls that can be made, none of them made yet; the ids asked for are
\* the oldest stored entry and the millisecond the calls are made in
Operations ==
    { [op |-> o.op, arg |-> o.arg, pc |-> "idle", local |-> <<>>, entry |-> NoEntry,
       removed |-> NoEntry, ret |-> "", overlapped |-> FALSE]
      : o \in [op : {"saveAnalysis", "clearHistory"}, arg : {0}]
               \cup [op : {"getAnalysis", "deleteAnalysis"},
                     arg : {1, MAX_HISTORY + 1}] }

InitCallers ==
    /\ contextArg = "hybrid"
    /\ extractedData = WorstPage
    /\ imageVerification = NoVerification
    /\ ieeeTieUp = TRUE
    /\ engine = NoEngine
    /\ result = NoResult
    /\ issues = <<>>
    /\ gradeArg = -1
    /\ gradeRet = ""
    /\ pc = "storage"
    /\ NoReport /\ NoPage
    /\ saveInput = DefaultSaveInput
    /\ worker = IdleWorker
    \* every stored entry is older than this millisecond
    /\ \E n \in {0, 2, MAX_HISTORY} : history = OldHistory(n)
    /\ clock = MAX_HISTORY + 1
    /\ callers \in [Callers -> Operations]

\* the call is made: it runs up to its first await
Call(c) ==
    /\ callers[c].pc = "idle"
    \* a call is in flight once made and until it returns
    /\ LET InFlight(call) == call.pc \notin {"idle", "done"}
           meets == \E o \in Callers \ {c} : InFlight(callers[o])
       IN  callers' =
             [o \in Callers |->
                IF o = c
                THEN [callers[c] EXCEPT
                        !.pc = CASE callers[c].op = "saveAnalysis" -> "get1"
                                 [] callers[c].op = "clearHistory" -> "remove"
                                 [] OTHER -> "get",
                        !.overlapped = meets]
                ELSE [callers[o] EXCEPT !.overlapped = @ \/ InFlight(callers[o])]]
    /\ UNCHANGED <<history, clock>>

\* await getHistory() settles, and the caller runs on to its next await
GetHistory(c) ==
    LET call == callers[c]
        index == findIndex(history, call.arg)
    IN  /\ call.pc \in {"get1", "get2", "get"}
        /\ callers' =
             [callers EXCEPT ![c] =
                CASE call.pc = "get1" ->
                        \* pruneIfNearQuota(history) asks for the bytes in use
                        [call EXCEPT !.local = history, !.pc = "bytes"]
                  [] call.pc = "get2" ->
                        \* the entry is built, put in front, and the set is sent
                        LET e == historyEntry(analysisOf(c), clock, clock)
                        IN  [call EXCEPT !.entry = e,
                                         !.local = unshiftTrimmed(history, e),
                                         !.pc = "set"]
                  [] call.op = "getAnalysis" ->
                        [call EXCEPT !.local = history, !.pc = "done",
                                     !.entry = getAnalysis(history, call.arg),
                                     !.ret = IF index = 0 THEN "null" ELSE "entry"]
                  [] OTHER ->
                        \* deleteAnalysis
                        IF index = 0
                        THEN [call EXCEPT !.local = history, !.pc = "done",
                                          !.ret = "false"]
                        ELSE [call EXCEPT !.local = splice(history, index),
                                          !.removed = history[index],
                                          !.pc = "set"]]
        /\ UNCHANGED <<history, clock>>

\* await getBytesInUse settles in pruneIfNearQuota
GetBytesInUse(c) ==
    LET call == callers[c]
    IN  /\ call.pc = "bytes"
        /\ \E bytesUsed \in BytesInUse :
            callers' =
              [callers EXCEPT ![c] =
                 IF nearQuota(bytesUsed)
                 THEN [call EXCEPT !.local = pruneIfNearQuota(call.local, bytesUsed),
                                   !.pc = "pruneSet"]
                 ELSE [call EXCEPT !.pc = "get2"]]
        /\ UNCHANGED <<history, clock>>

\* await chrome.storage.local.set settles: the caller's array is the store
StorageSet(c) ==
    LET call == callers[c]
    IN  /\ call.pc \in {"pruneSet", "set"}
        /\ history' = call.local
        /\ callers' =
             [callers EXCEPT ![c] =
                IF call.pc = "pruneSet" THEN [call EXCEPT !.pc = "get2"]
                ELSE [call EXCEPT !.pc = "done",
                                  !.ret = IF call.op = "saveAnalysis"
                                          THEN "entry" ELSE "true"]]
        /\ UNCHANGED clock

\* await chrome.storage.local.remove settles
StorageRemove(c) ==
    /\ callers[c].pc = "remove"
    /\ history' = <<>>
    /\ callers' = [callers EXCEPT ![c].pc = "done"]
    /\ UNCHANGED clock

\* a millisecond passes
Tick ==
    /\ pc = "storage"
    /\ clock < MAX_HISTORY + 1 + MaxTicks
    /\ clock' = clock + 1
    /\ UNCHANGED <<history, callers>>

callersFrame ==
    UNCHANGED <<contextArg, extractedData, imageVerification, ieeeTieUp, engine,
                result, issues, gradeArg, gradeRet, pc, summary, recommendations,
                entry, saveInput, headingCounts, collector, worker>>

NextCallers ==
    \/ \E c \in Callers : Call(c) /\ callersFrame
    \/ \E c \in Callers : GetHistory(c) /\ callersFrame
    \/ \E c \in Callers : GetBytesInUse(c) /\ callersFrame
    \/ \E c \in Callers : StorageSet(c) /\ callersFrame
    \/ \E c \in Callers : StorageRemove(c) /\ callersFrame
    \/ Tick /\ callersFrame

SpecCallers == InitCallers /\ [][NextCallers]_vars

TypeOK ==
    /\ pc \in {"page", "new", "ready", "scored", "threw", "reported", "summarized",
              "recommended", "saved", "saveThrew", "grade", "graded"}
    /\ pc \in {"scored", "reported"} => result.totalScore \in Int

(***************************************************************************)
(* Properties                                                              *)
(***************************************************************************)
Scored == pc \in {"scored", "reported"}

CategoryKeys ==
    {"structuredData", "protocolMeta", "contentQuality", "contentStructure",
     "authorityTrust"}

RecognizedContexts == {"want", "need", "hybrid"}

\* the factor of category k that carries the given name
FactorNamed(categoryScores, k, name) ==
    LET fs == categoryScores[k].factors
    IN  fs[CHOOSE i \in 1..Len(fs) : fs[i].name = name]

\* C1: calculateScore returns five category scores in [0,100] (0..1000
\* tenths) and an integer totalScore in [0,100], for every input and context.
C1_ScoresInRange ==
    Scored =>
        /\ \A k \in CategoryKeys :
              /\ result.categoryScores[k].score >= 0
              /\ result.categoryScores[k].score <= 1000
        /\ result.totalScore \in 0..100

\* the best page under a context that overshoots: two categories reach 100
\* without a clamp and one is cut back to 100 by its clamp
C1_Witness ==
    /\ Scored
    /\ result.categoryScores.structuredData.score = 1000
    /\ result.categoryScores.protocolMeta.score = 1000
    /\ SumPoints(result.categoryScores.contentStructure.factors) > 1000
    /\ result.categoryScores.contentStructure.score = 1000

\* C2 as stated: every factor has points <= maxPoints.
C2_PointsWithinMaxPoints ==
    Scored =>
        \A k \in CategoryKeys :
            \A i \in 1..Len(result.categoryScores[k].factors) :
                LET f == result.categoryScores[k].factors[i]
                IN  f.points <= f.maxPoints

\* C2 amended: every factor has points <= maxPoints, except the overshoot
\* factors, which stay within 2 x (Compatibility Information), 1.5 x (Review
\* Count) and 1.6 x (Certifications) of maxPoints.
C2_PointsWithinCeiling ==
    Scored =>
        \A k \in CategoryKeys :
            \A i \in 1..Len(result.categoryScores[k].factors) :
                LET f == result.categoryScores[k].factors[i]
                IN  CASE f.name = "Compatibility Information" ->
                            f.points <= 2 * f.maxPoints
                      [] f.name = "Review Count" -> 10 * f.points <= 15 * f.maxPoints
                      [] f.name = "Certifications" -> 10 * f.points <= 16 * f.maxPoints
                      [] OTHER -> f.points <= f.maxPoints

\* a multiplier above 1.0 has been applied to a present warranty and cut back
\* to the weight, while compatibility has overshot its weight
C2_Witness ==
    /\ Scored
    /\ engine.context = "need"
    /\ Truthy(extractedData.contentQuality.productDetails.hasWarranty)
    /\ LET cs == result.categoryScores
       IN  /\ FactorNamed(cs, "contentQuality", "Warranty Information").points = 70
           /\ FactorNamed(cs, "contentQuality", "Compatibility Information").points = 200

\* the bands of the README's grading scale
GradeBand(score, grade) ==
    /\ grade \in {"A", "B", "C", "D", "F"}
    /\ grade = "A" <=> score >= 90
    /\ grade = "B" <=> (score >= 80 /\ score <= 89)
    /\ grade = "C" <=> (score >= 70 /\ score <= 79)
    /\ grade = "D" <=> (score >= 60 /\ score <= 69)
    /\ grade = "F" <=> score <= 59

\* C3: getGrade maps every integer score in 0..100 to the band that holds it
\* (A >= 90, B 80..89, C 70..79, D 60..69, F 0..59; 89 is B, 90 is A, 59 is F,
\* 60 is D), and the grade of a ScoreResult is the band of its totalScore.
C3_GradeBands ==
    /\ pc = "graded" =>
          /\ GradeBand(gradeArg, gradeRet)
          /\ gradeArg = 89 => gradeRet = "B"
          /\ gradeArg = 90 => gradeRet = "A"
          /\ gradeArg = 59 => gradeRet = "F"
          /\ gradeArg = 60 => gradeRet = "D"
    /\ Scored => GradeBand(result.totalScore, result.grade)

C3_Witness == pc = "graded" /\ gradeArg = 90 /\ gradeRet = "A"

\* C4: totalScore is the weighted sum (0.25, 0.20, 0.25, 0.15, 0.15) of the
\* category scores rounded to a nearest integer once; the category scores
\* that enter it are the sums of the factor points, capped at 100 but never
\* rounded.
C4_WeightedSumRoundedOnce ==
    Scored =>
        LET cs == result.categoryScores
            sum == 25 * cs.structuredData.score + 20 * cs.protocolMeta.score
                   + 25 * cs.contentQuality.score + 15 * cs.contentStructure.score
                   + 15 * cs.authorityTrust.score
        IN  /\ 2 * (1000 * result.totalScore - sum) <= 1000
            /\ 2 * (sum - 1000 * result.totalScore) <= 1000
            /\ \A k \in CategoryKeys :
                  cs[k].score = Min(1000, SumPoints(cs[k].factors))

\* a fractional category score has entered the sum and the sum was rounded
C4_Witness ==
    /\ Scored
    /\ result.categoryScores.protocolMeta.score % 10 = 5
    /\ weightedSum(result.categoryScores) % 1000 # 0

\* the og:image Format factor of the result
FormatFactor == FactorNamed(result.categoryScores, "protocolMeta", "og:image Format")

\* C5: a verification result with isWebP = true gives the og:image Format
\* factor 0 points, status fail and critical true, whatever else is given.
C5_WebPForcesFailure ==
    (Scored /\ imageVerification.given /\ imageVerification.isWebP) =>
        /\ FormatFactor.points = 0
        /\ FormatFactor.status = "fail"
        /\ FormatFactor.critical

\* isWebP together with isValidFormat and an og:image URL ending in .jpg
C5_Witness ==
    /\ Scored
    /\ imageVerification.given /\ imageVerification.isWebP
    /\ imageVerification.isValidFormat /\ imageVerification.format = "jpeg"
    /\ extractedData.metaTags.openGraph.image = <<"a", ".", "j", "p", "g">>
    /\ FormatFactor.status = "fail"

\* C6: scoring the same facts under any other context gives the same points
\* to every factor that is not flagged contextual.
C6_NonContextualInvariant ==
    Scored =>
        \A c \in RecognizedContexts :
            LET other == categoryScoresOf(ScoringEngine(c), extractedData, imageVerification)
            IN  \A k \in CategoryKeys :
                    \A i \in 1..Len(result.categoryScores[k].factors) :
                        LET f == result.categoryScores[k].factors[i]
                        IN  ~f.contextual => f.points = other[k].factors[i].points

\* want against need on a page whose contextual factors do differ and whose
\* dimensions are present
C6_Witness ==
    /\ Scored
    /\ engine.context = "want"
    /\ Truthy(extractedData.contentQuality.productDetails.hasDimensions)
    /\ LET other == categoryScoresOf(ScoringEngine("need"), extractedData, imageVerification)
       IN  /\ FactorNamed(other, "authorityTrust", "Review Count").points
                # FactorNamed(result.categoryScores, "authorityTrust", "Review Count").points
           /\ FactorNamed(other, "contentQuality", "Dimensions/Size").points
                = FactorNamed(result.categoryScores, "contentQuality", "Dimensions/Size").points

\* the factors whose underlying facts are undefined in the extracted data
FactorsOfMissingFacts ==
    LET sd == extractedData.structuredData.schemas
        mt == extractedData.metaTags
        cq == extractedData.contentQuality
        cs == extractedData.contentStructure
        ts == extractedData.trustSignals
        u(fact) == fact = "undefined"
        table ==
          { <<"structuredData", "Product Schema", u(sd.product)>>,
            <<"structuredData", "Offer Schema", u(sd.offer)>>,
            <<"structuredData", "AggregateRating Schema", u(sd.aggregateRating)>>,
            <<"structuredData", "Review Schema", sd.reviews < 0>>,
            <<"structuredData", "FAQ Schema", u(sd.faq)>>,
            <<"structuredData", "Breadcrumb Schema", u(sd.breadcrumb)>>,
            <<"structuredData", "Organization/Brand Schema",
              u(sd.organization) /\ u(sd.brand)>>,
            <<"structuredData", "ImageObject Schema", sd.images < 0>>,
            <<"protocolMeta", "Canonical URL", u(mt.canonical.present)>>,
            <<"contentQuality", "Description Length",
              cq.description.lengthScore < 0 /\ cq.description.wordCount < 0>>,
            <<"contentQuality", "Description Quality",
              u(cq.description.hasBenefitStatements)
              /\ u(cq.description.hasEmotionalLanguage)
              /\ u(cq.description.hasTechnicalTerms)>>,
            <<"contentQuality", "Specifications",
              cq.specifications.countScore < 0 /\ cq.specifications.count < 0>>,
            <<"contentQuality", "Features List",
              cq.features.countScore < 0 /\ cq.features.count < 0>>,
            <<"contentQuality", "FAQ Section", cq.faq.countScore < 0 /\ cq.faq.count < 0>>,
            <<"contentQuality", "Dimensions/Size", u(cq.productDetails.hasDimensions)>>,
            <<"contentQuality", "Materials", u(cq.productDetails.hasMaterials)>>,
            <<"contentQuality", "Care Instructions",
              u(cq.productDetails.hasCareInstructions)>>,
            <<"contentQuality", "Warranty Information", u(cq.productDetails.hasWarranty)>>,
            <<"contentQuality", "Compatibility Information",
              u(cq.productDetails.hasCompatibility)>>,
            <<"contentStructure", "H1 Heading",
              u(cs.headings.hasSingleH1) /\ u(cs.headings.hasH1)>>,
            <<"contentStructure", "Heading Hierarchy", u(cs.headings.hierarchyValid)>>,
            <<"contentStructure", "Semantic HTML",
              cs.semanticHTML.score < 0 /\ u(cs.semanticHTML.hasMain)
              /\ u(cs.semanticHTML.hasArticle)>>,
            <<"contentStructure", "Content-to-Chrome Ratio",
              cs.contentRatio.score < 0 /\ cs.contentRatio.ratio < 0>>,
            <<"contentStructure", "Table Structure",
              cs.tables.score < 0 /\ u(cs.tables.hasProperTables)
              /\ cs.tables.tableCount < 0>>,
            <<"contentStructure", "List Structure",
              cs.lists.score < 0 /\ u(cs.lists.hasProperLists)>>,
            <<"contentStructure", "ARIA Labels", cs.accessibility.ariaLabels < 0>>,
            <<"contentStructure", "Primary Image Alt Text",
              u(cs.images.primaryImageHasAlt)>>,
            <<"contentStructure", "Image Alt Coverage", cs.images.altCoverage < 0>>,
            <<"contentStructure", "JavaScript Dependency",
              cs.jsDependency.score < 0 /\ u(cs.jsDependency.dependencyLevel)>>,
            <<"authorityTrust", "Review Count",
              ts.reviews.countScore < 0 /\ ts.reviews.count < 0>>,
            <<"authorityTrust", "Average Rating",
              ts.reviews.ratingScore < 0 /\ ts.reviews.averageRating < 0>>,
            <<"authorityTrust", "Review Recency", u(ts.reviews.hasRecentReviews)>>,
            <<"authorityTrust", "Review Depth",
              ts.reviews.depthScore < 0 /\ ts.reviews.averageReviewLength < 0>>,
            <<"authorityTrust", "Brand Clarity", ts.brand.score < 0 /\ u(ts.brand.clarity)>>,
            <<"authorityTrust", "Certifications",
              ts.certifications.score < 0 /\ ts.certifications.count < 0>>,
            <<"authorityTrust", "Awards", ts.awards.count < 0>> }
    IN  { <<t[1], t[2]>> : t \in {t \in table : t[3]} }

\* C7: calculateScore never throws on missing, null or undefined facts, and a
\* factor whose underlying fact is missing has status fail and zero points.
C7_MissingFactsFailSafely ==
    /\ pc # "threw"
    /\ Scored =>
          \A m \in FactorsOfMissingFacts :
              LET f == FactorNamed(result.categoryScores, m[1], m[2])
              IN  f.status = "fail" /\ f.points = 0

\* the og:image URLs of the model by what their extension says
WebpUrls ==
    { <<"a", ".", "w", "e", "b", "p">>, <<"a", ".", "w", "e", "b", "p", "?", "w">> }

RasterUrls ==
    { <<"a", ".", "j", "p", "g">>, <<"A", ".", "J", "P", "G">>,
      <<"a", ".", "p", "n", "g", "?", "w">> }

\* C8 as stated: three-way scoring in which an unverified or unknown format,
\* with or without a verification result, receives half of the weight.
C8_UnknownFormatGetsHalf ==
    Scored =>
        LET image == extractedData.metaTags.openGraph.image
            iv == imageVerification
        IN  /\ (iv.given /\ iv.isWebP) => (FormatFactor.points = 0 /\ FormatFactor.status = "fail")
            /\ (iv.given /\ ~iv.isWebP /\ iv.isValidFormat) => FormatFactor.points = 150
            /\ (iv.given /\ ~iv.isWebP /\ ~iv.isValidFormat) => FormatFactor.points = 75
            /\ (~iv.given /\ image # <<>> /\ image \notin WebpUrls \cup RasterUrls) =>
                  FormatFactor.points = 75

\* C8 amended: a verification result decides first (WebP: 0 points, fail;
\* valid format: the full weight, pass; neither: half of the weight, warning);
\* without one the og:image URL decides (.webp: 0 points, fail; .jpg, .jpeg,
\* .png or .gif: the full weight, pass), and an unrecognized extension or an
\* absent og:image gives 0 points with status unknown.
C8_FormatScoring ==
    Scored =>
        LET image == extractedData.metaTags.openGraph.image
            iv == imageVerification
            is(status, points) ==
                FormatFactor.status = status /\ FormatFactor.points = points
        IN  /\ (iv.given /\ iv.isWebP) => is("fail", 0)
            /\ (iv.given /\ ~iv.isWebP /\ iv.isValidFormat) => is("pass", 150)
            /\ (iv.given /\ ~iv.isWebP /\ ~iv.isValidFormat) => is("warning", 75)
            /\ (~iv.given /\ image \in WebpUrls) => is("fail", 0)
            /\ (~iv.given /\ image \in RasterUrls) => is("pass", 150)
            /\ (~iv.given /\ image \notin WebpUrls \cup RasterUrls) => is("unknown", 0)

\* nothing was verified and the og:image URL has no recognizable extension
C8_Witness ==
    /\ Scored
    /\ ~imageVerification.given
    /\ extractedData.metaTags.openGraph.image = <<"a", "/", "i", "m", "g">>
    /\ FormatFactor.status = "unknown"
    /\ FormatFactor.points = 0

\* the ScoreResult of the same input under context hybrid
HybridResult ==
    calculateScore(ScoringEngine("hybrid"), extractedData, imageVerification, ieeeTieUp)

RobotsFactor == FactorNamed(result.categoryScores, "protocolMeta", "Robots Allows Indexing")

RobotsIssue ==
    [category |-> "Protocol & Meta Compliance", factor |-> "Robots Allows Indexing",
     impact |-> "high"]

\* C10: robots.isBlocked true gives the Robots Allows Indexing factor status
\* fail, zero points and critical true, and getCriticalIssues returns it;
\* otherwise the factor passes with its full weight and is not critical.
C10_NoindexIsCritical ==
    Scored =>
        IF extractedData.metaTags.robots.isBlocked = "true"
        THEN /\ RobotsFactor.status = "fail"
             /\ RobotsFactor.points = 0
             /\ RobotsFactor.critical
             /\ pc = "reported" => \E i \in 1..Len(issues) : issues[i] = RobotsIssue
        ELSE /\ RobotsFactor.status = "pass"
             /\ RobotsFactor.points = 50
             /\ ~RobotsFactor.critical
             /\ pc = "reported" => \A i \in 1..Len(issues) : issues[i] # RobotsIssue

\* an otherwise perfect page that is blocked from indexing
C10_Witness ==
    /\ pc = "reported"
    /\ extractedData.metaTags.robots.isBlocked = "true"
    /\ extractedData.structuredData = BestPage.structuredData
    /\ issues = << RobotsIssue >>

\* <<c, i>>: factor i of category CategoryOrder[c] is critical and has failed
CriticalFailures ==
    UNION { { <<c, i>> : i \in { j \in 1..Len(result.categoryScores[CategoryOrder[c]].factors) :
                                   LET f == result.categoryScores[CategoryOrder[c]].factors[j]
                                   IN  f.critical /\ f.status = "fail" } }
            : c \in 1..Len(CategoryOrder) }

\* p comes before q in category order, then in factor evaluation order
EvaluatedBefore(p, q) == p[1] < q[1] \/ (p[1] = q[1] /\ p[2] < q[2])

\* C11: getCriticalIssues returns exactly one entry for every factor that is
\* critical and has status fail and none for any other factor, in category
\* order then factor evaluation order, every entry with impact high.
C11_CriticalIssuesExact ==
    pc = "reported" =>
        /\ Len(issues) = Cardinality(CriticalFailures)
        /\ \A p \in CriticalFailures :
            LET rank == 1 + Cardinality({ q \in CriticalFailures : EvaluatedBefore(q, p) })
                category == result.categoryScores[CategoryOrder[p[1]]]
            IN  issues[rank] = [category |-> category.categoryName,
                                factor |-> category.factors[p[2]].name,
                                impact |-> "high"]

\* failed critical factors in two categories, beside a critical factor whose
\* status is unknown and is not reported
C11_Witness ==
    /\ pc = "reported"
    /\ Len(issues) = 4
    /\ issues[1].factor = "Product Schema"
    /\ issues[2].factor = "Offer Schema"
    /\ issues[3].factor = "og:image Present"
    /\ issues[4] = RobotsIssue
    /\ FormatFactor.critical /\ FormatFactor.status = "unknown"

\* no schema of any kind in the structured-data section
NoSchemas(s) ==
    /\ s.product = "null" /\ s.offer = "null" /\ s.aggregateRating = "null"
    /\ s.faq = "null" /\ s.breadcrumb = "null" /\ s.organization = "null"
    /\ s.brand = "null" /\ s.reviews = 0 /\ s.images = 0

\* the sum of the weights of the factors that pass
RECURSIVE PassedWeight(_)
PassedWeight(factors) ==
    IF factors = <<>> THEN 0
    ELSE (IF Head(factors).status = "pass" THEN Head(factors).maxPoints ELSE 0)
         + PassedWeight(Tail(factors))

ProductIssue ==
    [category |-> "Structured Data", factor |-> "Product Schema", impact |-> "high"]

\* C12: with no schemas at all the Structured Data score is 0, every factor
\* fails and the missing Product Schema is a critical issue, in any context;
\* in general the score is the sum of the weights of exactly the schema
\* factors that are present, a schema the collector delivered (as an object,
\* as null, as an array) being present when it is an object or a non-empty
\* array (the FAQ schema when it holds at least one question).
C12_StructuredDataByPresence ==
    Scored =>
        LET sd == result.categoryScores.structuredData
            s == extractedData.structuredData.schemas
            passes(name) == FactorNamed(result.categoryScores, "structuredData", name).status = "pass"
            delivered(v) == v \in {"object", "null"}
        IN  /\ NoSchemas(s) =>
                /\ sd.score = 0
                /\ \A i \in 1..Len(sd.factors) :
                        sd.factors[i].status = "fail" /\ sd.factors[i].points = 0
                /\ pc = "reported" => \E i \in 1..Len(issues) : issues[i] = ProductIssue
            /\ sd.score = PassedWeight(sd.factors)
            /\ \A i \in 1..Len(sd.factors) : sd.factors[i].status \in {"pass", "fail"}
            /\ delivered(s.product) => (passes("Product Schema") <=> s.product = "object")
            /\ delivered(s.offer) => (passes("Offer Schema") <=> s.offer = "object")
            /\ delivered(s.aggregateRating) =>
                    (passes("AggregateRating Schema") <=> s.aggregateRating = "object")
            /\ s.reviews >= 0 => (passes("Review Schema") <=> s.reviews > 0)
            /\ delivered(s.faq) =>
                    (passes("FAQ Schema") <=> (s.faq = "object" /\ s.faqQuestionCount > 0))
            /\ delivered(s.breadcrumb) =>
                    (passes("Breadcrumb Schema") <=> s.breadcrumb = "object")
            /\ (delivered(s.organization) /\ delivered(s.brand)) =>
                    (passes("Organization/Brand Schema")
                        <=> (s.organization = "object" \/ s.brand = "object"))
            /\ s.images >= 0 => (passes("ImageObject Schema") <=> s.images > 0)

\* a page without any schema, under need, otherwise at its best
C12_Witness ==
    /\ pc = "reported"
    /\ engine.context = "need"
    /\ NoSchemas(extractedData.structuredData.schemas)
    /\ extractedData.metaTags = BestPage.metaTags
    /\ result.categoryScores.structuredData.score = 0
    /\ issues[1] = ProductIssue

\* the multiple of its weight at which a factor's points are cut, in tenths
capMultiple(name) ==
    CASE name = "Compatibility Information" -> 20
      [] name = "Review Count" -> 15
      [] name = "Certifications" -> 16
      [] OTHER -> 10

OvershootFactors == {"Compatibility Information", "Review Count", "Certifications"}

\* C13: no factor's points exceed its ceiling: the weight for an ordinary
\* factor, the documented multiple of the weight, between 1.5 and 2, for an
\* overshoot factor; hence no factor has more than twice its maxPoints.
C13_PointsWithinDocumentedCeiling ==
    /\ \A name \in OvershootFactors : capMultiple(name) \in 15..20
    /\ Scored =>
        \A k \in CategoryKeys :
            \A i \in 1..Len(result.categoryScores[k].factors) :
                LET f == result.categoryScores[k].factors[i]
                IN  /\ 10 * f.points <= capMultiple(f.name) * f.maxPoints
                    /\ f.points <= 2 * f.maxPoints
                    /\ f.points >= 0

\* under want the best rating, scaled by 1.3, is cut back to its weight while
\* the review count overshoots its weight
C13_Witness ==
    /\ Scored
    /\ engine.context = "want"
    /\ extractedData.trustSignals.reviews.ratingScore = 100
    /\ FactorNamed(result.categoryScores, "authorityTrust", "Average Rating").points = 200
    /\ FactorNamed(result.categoryScores, "authorityTrust", "Review Count").points = 350

\* C14: the category-weight table has exactly the five entries
\* structuredData, protocolMeta, contentQuality, contentStructure and
\* authorityTrust, each positive, summing to 1.0 (here 100 hundredths), and
\* these are the weights every category score carries.
C14_CategoryWeightsSumToOne ==
    /\ DOMAIN CATEGORY_WEIGHTS = CategoryKeys
    /\ Cardinality(DOMAIN CATEGORY_WEIGHTS) = 5
    /\ \A k \in DOMAIN CATEGORY_WEIGHTS : CATEGORY_WEIGHTS[k] > 0
    /\ CATEGORY_WEIGHTS.structuredData + CATEGORY_WEIGHTS.protocolMeta
         + CATEGORY_WEIGHTS.contentQuality + CATEGORY_WEIGHTS.contentStructure
         + CATEGORY_WEIGHTS.authorityTrust = 100
    /\ Scored =>
        /\ \A k \in CategoryKeys : result.categoryScores[k].weight = CATEGORY_WEIGHTS[k]
        /\ result.categoryScores.structuredData.weight
             + result.categoryScores.protocolMeta.weight
             + result.categoryScores.contentQuality.weight
             + result.categoryScores.contentStructure.weight
             + result.categoryScores.authorityTrust.weight = 100

\* the best page, scored with the weights 25, 20, 25, 15 and 15
C14_Witness ==
    /\ Scored
    /\ extractedData = BestPage
    /\ result.categoryScores.structuredData.weight = 25
    /\ result.categoryScores.protocolMeta.weight = 20
    /\ result.categoryScores.contentQuality.weight = 25
    /\ result.categoryScores.contentStructure.weight = 15
    /\ result.categoryScores.authorityTrust.weight = 15
    /\ result.totalScore >= 90

\* by how much a category score is raised, in tenths of a point
ScoreRaises == {1, 5, 25, 100, 1000}

\* the category scores with the score of category k raised by d, to 100 at most
RaisedScores(k, d) ==
    [result.categoryScores EXCEPT ![k].score = Min(1000, result.categoryScores[k].score + d)]

\* C15: of two sets of five category scores that differ in one category only,
\* the set with the higher score in that category gets a totalScore that is
\* greater or equal, whichever way an exact half is rounded.
C15_AggregationMonotonic ==
    Scored =>
        \A k \in CategoryKeys : \A d \in ScoreRaises : \A tieUp \in BOOLEAN :
            RaisedScores(k, d)[k].score > result.categoryScores[k].score =>
                totalScoreOf(RaisedScores(k, d), tieUp) >= result.totalScore

\* raising Authority & Trust by a tenth of a point leaves the total where it
\* is, raising it by ten points lifts the total
C15_Witness ==
    /\ Scored
    /\ result.categoryScores.authorityTrust.score <= 900
    /\ totalScoreOf(RaisedScores("authorityTrust", 1), TRUE) = result.totalScore
    /\ totalScoreOf(RaisedScores("authorityTrust", 100), TRUE) > result.totalScore

\* the place of a category in the original order
CategoryPosition(key) == CHOOSE c \in 1..Len(CategoryOrder) : CategoryOrder[c] = key

\* the number of factors of category key that have the given status
FactorsWithStatus(key, status) ==
    Cardinality({ i \in 1..Len(result.categoryScores[key].factors) :
                    result.categoryScores[key].factors[i].status = status })

\* C17: getCategoryScoreSummary returns one summary per category, lowest score
\* first, categories of equal score in their original order; passCount,
\* warningCount and failCount count the category's factors of that status,
\* totalFactors counts all its factors, and the three counts add up to
\* totalFactors less the factors whose status is unknown.
C17_SummarySortedWithCounts ==
    pc = "summarized" =>
        /\ Len(summary) = Cardinality(CategoryKeys)
        /\ { summary[i].key : i \in 1..Len(summary) } = CategoryKeys
        /\ \A i, j \in 1..Len(summary) :
            i < j =>
                /\ summary[i].score <= summary[j].score
                /\ summary[i].score = summary[j].score =>
                        CategoryPosition(summary[i].key) < CategoryPosition(summary[j].key)
        /\ \A i \in 1..Len(summary) :
            LET m == summary[i]
            IN  /\ m.score = result.categoryScores[m.key].score
                /\ m.name = result.categoryScores[m.key].categoryName
                /\ m.passCount = FactorsWithStatus(m.key, "pass")
                /\ m.warningCount = FactorsWithStatus(m.key, "warning")
                /\ m.failCount = FactorsWithStatus(m.key, "fail")
                /\ m.totalFactors = Len(result.categoryScores[m.key].factors)
                /\ m.passCount + m.warningCount + m.failCount
                        = m.totalFactors - FactorsWithStatus(m.key, "unknown")

\* the sort has moved Structured Data from the front, two categories tie, and
\* one factor has status unknown
C17_Witness ==
    /\ pc = "summarized"
    /\ summary[1].key # "structuredData"
    /\ \E i \in 1..(Len(summary) - 1) : summary[i].score = summary[i + 1].score
    /\ \E i \in 1..Len(summary) :
            summary[i].passCount + summary[i].warningCount + summary[i].failCount
                < summary[i].totalFactors

\* <<c, i>>: factor i of category CategoryOrder[c] has status warning or fail
NonPassing ==
    UNION { { <<c, i>> : i \in { j \in 1..Len(result.categoryScores[CategoryOrder[c]].factors) :
                                   result.categoryScores[CategoryOrder[c]].factors[j].status
                                        \in {"warning", "fail"} } }
            : c \in 1..Len(CategoryOrder) }

FactorAt(p) == result.categoryScores[CategoryOrder[p[1]]].factors[p[2]]

\* the factor a recommendation is about, as a place <<c, i>> in the result
PlaceOf(r) ==
    LET c == CHOOSE k \in 1..Len(CategoryOrder) :
                 result.categoryScores[CategoryOrder[k]].categoryName = r.category
        fs == result.categoryScores[CategoryOrder[c]].factors
    IN  << c, CHOOSE n \in 1..Len(fs) : fs[n].name = r.factor >>

GapAt(p) == FactorAt(p).maxPoints - FactorAt(p).points

EntryFields ==
    {"id", "url", "title", "domain", "score", "grade", "context", "timestamp",
     "categoryScores", "recommendationCount", "criticalIssues"}

\* an entry of the stored history holds the documented fields and no other
SummaryOnly(e) ==
    /\ DOMAIN e = EntryFields
    /\ DOMAIN e.categoryScores \subseteq CategoryKeys
    /\ \A key \in DOMAIN e.categoryScores :
        /\ DOMAIN e.categoryScores[key] = {"score", "name"}
        /\ e.categoryScores[key].score % 10 = 0
    /\ e.recommendationCount \in Nat
    /\ e.criticalIssues \in 0..e.recommendationCount

\* C19: every entry of the stored history holds only an id, url, title,
\* domain, total score, grade, context, timestamp, per category a record of
\* the score rounded to an integer and the name, a recommendation count and
\* a critical-issue count: never a factor list or a recommendation body; the
\* entry saveAnalysis returns is the one at the front of the store and
\* carries the rounded scores and the counts of the analysis it was given.
C19_HistoryEntriesAreSummaries ==
    /\ \A i \in 1..Len(history) : SummaryOnly(history[i])
    /\ pc = "saved" =>
        /\ history[1] = entry
        /\ SummaryOnly(entry)
        /\ entry.score = result.totalScore
        /\ DOMAIN entry.categoryScores = DOMAIN result.categoryScores
        /\ \A key \in DOMAIN entry.categoryScores :
            /\ entry.categoryScores[key].name = result.categoryScores[key].categoryName
            /\ entry.categoryScores[key].score - result.categoryScores[key].score \in -4..5
        /\ entry.recommendationCount
              = IF saveInput.hasRecommendations THEN Len(recommendations) ELSE 0

\* an analysis with recommendations and a category score that is not a whole
\* number, saved in front of an earlier entry
C19_Witness ==
    /\ pc = "saved"
    /\ Len(history) >= 2
    /\ history[1] = entry
    /\ entry.recommendationCount > 0
    /\ entry.criticalIssues > 0
    /\ \E key \in DOMAIN entry.categoryScores :
            result.categoryScores[key].score % 10 = 5
            /\ entry.categoryScores[key].score = result.categoryScores[key].score + 5

H1Factor == FactorNamed(result.categoryScores, "contentStructure", "H1 Heading")

HierarchyFactor == FactorNamed(result.categoryScores, "contentStructure", "Heading Hierarchy")

\* a heading level in use lies more than one below the level in use before it
SkippedLevel(counts) ==
    \E l \in 1..6 : \E m \in (l + 2)..6 :
        /\ counts[l] > 0 /\ counts[m] > 0
        /\ \A n \in (l + 1)..(m - 1) : counts[n] = 0

\* C20: several H1 headings and skipped heading levels each lower the points
\* of the Heading Hierarchy factor, a page with several H1s has the H1 Heading
\* points of a page with exactly one H1, and the hierarchy factor passes only
\* with exactly one H1 and no skipped level.
C20_HierarchyViolationsSpareH1Factor ==
    (Scored /\ headingCounts # <<>>) =>
        /\ (headingCounts[1] > 1 \/ SkippedLevel(headingCounts)) =>
                HierarchyFactor.points < HierarchyFactor.maxPoints
        /\ headingCounts[1] >= 1 => H1Factor.points = H1Factor.maxPoints
        /\ HierarchyFactor.status = "pass" =>
                (headingCounts[1] = 1 /\ ~SkippedLevel(headingCounts))

ContentQualityFactor(name) == FactorNamed(result.categoryScores, "contentQuality", name)

\* the facts behind a contextual Content Quality factor are all there
FullyEarned(name) ==
    LET cq == extractedData.contentQuality
    IN  CASE name = "Description Quality" ->
                /\ Truthy(cq.description.hasBenefitStatements)
                /\ Truthy(cq.description.hasTechnicalTerms)
          [] name = "Specifications" -> cq.specifications.countScore = 100
          [] name = "Warranty Information" -> Truthy(cq.productDetails.hasWarranty)
          [] name = "Compatibility Information" -> Truthy(cq.productDetails.hasCompatibility)

\* a context multiplier that enters the factor is above 1.0
Boosted(name) ==
    LET m == engine.multipliers
    IN  CASE name = "Description Quality" ->
                m.emotionalBenefitCopy > 10 \/ m.technicalSpecifications > 10
          [] name = "Specifications" -> m.technicalSpecifications > 10
          [] name = "Warranty Information" -> m.warrantyInfo > 10
          [] name = "Compatibility Information" -> m.compatibilityInfo > 10

ContextualQualityFactors ==
    {"Description Quality", "Specifications", "Warranty Information",
     "Compatibility Information"}

DimensionsFactor == ContentQualityFactor("Dimensions/Size")

\* C22: Dimensions/Size has 0 points and status fail on a page without
\* dimensions; otherwise its points are the dimensions weight, times 1.3 and
\* rounded when and only when the context is need, capped at the weight; it is
\* flagged contextual exactly when the context is need.
C22_DimensionsScoring ==
    Scored =>
        LET w == 10 * FACTOR_WEIGHTS.contentQuality.dimensions
            need == engine.context = "need"
            \* Math.round(w * 1.3), in tenths of a point
            boosted == 10 * ((13 * w + 50) \div 100)
        IN  /\ DimensionsFactor.maxPoints = w
            /\ DimensionsFactor.contextual <=> need
            /\ IF extractedData.contentQuality.productDetails.hasDimensions = "true"
               THEN /\ DimensionsFactor.status = "pass"
                    /\ DimensionsFactor.points = Min(w, IF need THEN boosted ELSE w)
               ELSE /\ DimensionsFactor.status = "fail"
                    /\ DimensionsFactor.points = 0

\* under need the boost lifts 5 points to 7, and the cap brings them back to 5
C22_Witness ==
    /\ Scored
    /\ engine.context = "need"
    /\ extractedData.contentQuality.productDetails.hasDimensions = "true"
    /\ DimensionsFactor.points = 50
    /\ DimensionsFactor.contextual
    /\ dimensionsPoints_uncapped("true", "need", FACTOR_WEIGHTS.contentQuality.dimensions) = 70

(***************************************************************************)
(* C23                                                                     *)
(***************************************************************************)
ProtocolMetaFactor(name) == FactorNamed(result.categoryScores, "protocolMeta", name)

\* the five present/optimal factors: whether the fact is there, whether it is
\* optimal, and the weight
PresentOptimalFactors ==
    LET mt == extractedData.metaTags
        w == FACTOR_WEIGHTS.protocolMeta
    IN  { [name |-> "og:title", present |-> mt.openGraph.title >= 1,
           optimal |-> mt.openGraph.title \in 1..60, weight |-> w.ogTitle],
          [name |-> "og:description", present |-> mt.openGraph.description >= 1,
           optimal |-> mt.openGraph.description \in 100..200,
           weight |-> w.ogDescription],
          [name |-> "Meta Description", present |-> mt.standard.description >= 1,
           optimal |-> mt.standard.description \in 120..160,
           weight |-> w.metaDescription],
          [name |-> "Twitter Card", present |-> mt.twitterCards.card # "",
           optimal |-> mt.twitterCards.card = "summary_large_image",
           weight |-> w.twitterCard],
          [name |-> "Canonical URL", present |-> mt.canonical.present = "true",
           optimal |-> mt.canonical.matchesCurrentUrl = "true",
           weight |-> w.canonical] }

\* C23: og:title, og:description, Meta Description, Twitter Card and Canonical
\* URL each have the full weight and status pass when present and optimal
\* (bands 1..60, 100..200, 120..160 inclusive; summary_large_image; canonical
\* matching), exactly 70% of the weight and status warning when present and
\* not optimal, and 0 points and status fail when absent.
C23_PresentOptimalPattern ==
    Scored =>
        \A f \in PresentOptimalFactors :
            LET g == ProtocolMetaFactor(f.name)
            IN  /\ g.maxPoints = 10 * f.weight
                /\ (f.present /\ f.optimal) =>
                       g.status = "pass" /\ g.points = g.maxPoints
                /\ (f.present /\ ~f.optimal) =>
                       g.status = "warning" /\ 10 * g.points = 7 * g.maxPoints
                /\ ~f.present => g.status = "fail" /\ g.points = 0

\* an og:title one character over the band: warning, 7 of 10 points
C23_Witness ==
    /\ Scored
    /\ extractedData.metaTags.openGraph.title = 61
    /\ ProtocolMetaFactor("og:title").status = "warning"
    /\ ProtocolMetaFactor("og:title").points = 70
    /\ ProtocolMetaFactor("Canonical URL").status = "pass"

(***************************************************************************)
(* C29                                                                     *)
(***************************************************************************)
RECURSIVE SumMaxPoints(_)
SumMaxPoints(factors) ==
    IF factors = <<>> THEN 0
    ELSE Head(factors).maxPoints + SumMaxPoints(Tail(factors))

\* the sum of all twelve Content Quality weights, in tenths of a point
ContentQualityWeightSum ==
    LET w == FACTOR_WEIGHTS.contentQuality
    IN  10 * (w.descriptionLength + w.descriptionQuality + w.specificationCount
              + w.specificationDetail + w.featureCount + w.faqPresence
              + w.dimensions + w.materials + w.careInstructions + w.warrantyInfo
              + w.compatibilityInfo + w.comparisonContent)

\* C29: the Content Quality score is at most 95 in every context, at most 85
\* under the hybrid multipliers, and above 85 only under need; the scored
\* factors leave out the specificationDetail and comparisonContent weights,
\* the clamp at 100 changes nothing in this scorer, and the total score stays
\* below 100.
C29_ContentQualityCeiling ==
    Scored =>
        LET cq == result.categoryScores.contentQuality
            w == FACTOR_WEIGHTS.contentQuality
        IN  /\ cq.score <= 950
            /\ engine.multipliers = CONTEXT_MULTIPLIERS.hybrid => cq.score <= 850
            /\ cq.score > 850 => engine.context = "need"
            /\ SumMaxPoints(cq.factors) =
                   ContentQualityWeightSum
                   - 10 * (w.specificationDetail + w.comparisonContent)
            /\ SumPoints(cq.factors) < 1000
            /\ cq.score = SumPoints(cq.factors)
            /\ result.totalScore < 100

\* the best page under need: 95 in Content Quality, 10 of them from the
\* doubled compatibility factor, and every other category at 100
C29_Witness ==
    /\ Scored
    /\ engine.context = "need"
    /\ result.categoryScores.contentQuality.score = 950
    /\ ContentQualityFactor("Compatibility Information").points = 200
    /\ \A k \in CategoryKeys \ {"contentQuality"} :
           result.categoryScores[k].score = 1000
    /\ result.totalScore = 99

(***************************************************************************)
(* C24                                                                     *)
(***************************************************************************)
ProbeOrder == <<"HEAD", "RANGE", "EXT">>

\* the calls of verifyImageFormat that have returned
Returned == { i \in DOMAIN worker.calls : worker.calls[i].pc = "done" }

\* the result names a format
FormatDetermined(r) == r.format \notin {"unknown", "undefined"}

\* C24: the probing steps of a call are taken in the order HEAD request,
\* byte-range fetch, URL extension; a format the Content-Type gave stands and
\* ends the probing; and a call returns without a format only after the last
\* step, the URL extension, was tried.
C24_ProbesInOrderToTheLast ==
    \A i \in DOMAIN worker.calls :
        LET call == worker.calls[i]
        IN  /\ \E n \in 1..3 : call.probes = SubSeq(ProbeOrder, 1, n)
            /\ i \in Returned =>
                /\ (call.head.ok /\ contentTypeFormat(call.head.contentType) # UnknownFormat)
                       => /\ call.result.format =
                                 contentTypeFormat(call.head.contentType).format
                          /\ call.probes = <<"HEAD">>
                /\ ~FormatDetermined(call.result) => call.probes = ProbeOrder

(***************************************************************************)
(* C28                                                                     *)
(***************************************************************************)
\* C28: in every result of verifyImageFormat and of detectFormatFromMagicBytes
\* isWebP is true exactly when the format is webp, a WebP is neither of valid
\* format nor valid, only jpeg, png and gif are of valid format, and a valid
\* result is of valid format and, with a Content-Length, below 5 MB.
C28_ResultFlagsConsistent ==
    /\ \A i \in Returned :
        LET call == worker.calls[i]
            r == call.result
        IN  /\ r.isWebP = "true" <=> r.format = "webp"
            /\ r.isWebP = "true" => r.isValidFormat = "false" /\ r.isValid = "false"
            /\ r.isValidFormat = "true" => r.format \in {"jpeg", "png", "gif"}
            /\ r.isValid = "true" =>
                /\ r.isValidFormat = "true"
                /\ (call.head.ok /\ call.head.contentLength >= 0)
                       => call.head.contentLength < SizeLimitBytes
    /\ \A body \in BodyOutcomes :
        LET m == detectFormatFromMagicBytes(body)
        IN  m # NullMagic =>
                /\ m.isWebP <=> m.format = "webp"
                /\ m.isWebP => ~m.isValidFormat
                /\ m.isValidFormat => m.format \in {"jpeg", "png", "gif"}

\* a batch answered with a WebP by its Content-Type and a JPEG by its bytes
C28_Witness ==
    /\ worker.phase = "responded"
    /\ Len(worker.calls) = 2
    /\ worker.calls[1].result.contentType = "image/webp"
    /\ worker.calls[1].result.isWebP = "true"
    /\ worker.calls[1].result.isValid = "false"
    /\ worker.calls[2].probes = <<"HEAD", "RANGE">>
    /\ worker.calls[2].result.format = "jpeg"
    /\ worker.calls[2].result.isValid = "true"

(***************************************************************************)
(* C27                                                                     *)
(***************************************************************************)
\* the one response is the result for the one URL, or the array of the
\* results for the URLs in the order of the request
AnswersRequest ==
    LET m == worker.message
        r == worker.responses[1]
    IN  /\ Len(worker.responses) = 1
        /\ r.isArray <=> m.type = "VERIFY_MULTIPLE_IMAGES"
        /\ Len(r.results) = Len(m.urls)
        /\ \A i \in 1..Len(m.urls) :
              /\ r.results[i].url = m.urls[i]
              /\ r.results[i] = worker.calls[i].result

\* C27: once the listener has run it has returned true; sendResponse is never
\* called twice; when every fetch settles it is called, once, with the result
\* (VERIFY_IMAGE_FORMAT) or with the array of the results in request order
\* (VERIFY_MULTIPLE_IMAGES), whatever the probes came to and in whatever
\* order they completed.
C27_RespondsExactlyOnce ==
    /\ [](worker.phase \in {"pending", "responded"} => worker.returned = "true")
    /\ [](Len(worker.responses) <= 1)
    /\ [](worker.phase = "responded" => AnswersRequest)
    /\ <>[](worker.phase = "responded" /\ Len(worker.responses) = 1)

\* the second image of a batch was verified before the first
C27_Witness ==
    /\ worker.phase = "responded"
    /\ worker.message.type = "VERIFY_MULTIPLE_IMAGES"
    /\ worker.settled = <<2, 1>>
    /\ worker.message.urls[1] # worker.message.urls[2]
    /\ worker.calls[1].probes = ProbeOrder
    /\ worker.calls[2].result.accessible = "false"
    /\ AnswersRequest

(***************************************************************************)
(* C25                                                                     *)
(***************************************************************************)
\* the call of c has returned
Done(c, op) == callers[c].op = op /\ callers[c].pc = "done"

\* the store holds the entry e; the id and the title tell entries apart
Holds(stored, e) ==
    \E i \in DOMAIN stored : stored[i].id = e.id /\ stored[i].title = e.title

SameEntry(e, f) == e.id = f.id /\ e # NoEntry /\ f # NoEntry /\ e.title = f.title

\* C25: when two saveAnalysis calls overlapped and both have returned, the
\* store holds the entries of both; when a saveAnalysis and a deleteAnalysis
\* overlapped and both have returned, the store holds the saved entry (unless
\* it is the one that was deleted) and does not hold the deleted one.
C25_OverlappingCallsLoseNothing ==
    pc = "storage" =>
        \A c \in Callers : \A d \in Callers \ {c} :
            (callers[c].overlapped /\ callers[d].overlapped) =>
                /\ (Done(c, "saveAnalysis") /\ Done(d, "saveAnalysis")) =>
                       Holds(history, callers[c].entry) /\ Holds(history, callers[d].entry)
                /\ (Done(c, "saveAnalysis") /\ Done(d, "deleteAnalysis")
                        /\ callers[d].ret = "true") =>
                       /\ Holds(history, callers[c].entry)
                            \/ SameEntry(callers[d].removed, callers[c].entry)
                       /\ ~Holds(history, callers[d].removed)

(***************************************************************************)
(* C26                                                                     *)
(***************************************************************************)
\* the caller c takes the step from position `from` to position `to`
Steps(c, from, to) ==
    pc = "storage" /\ callers[c].pc = from /\ callers'[c].pc = to

\* the first n entries of a list
Front(stored, n) == SubSeq(stored, 1, n)

\* C26: the store never holds more than MAX_HISTORY entries; a save puts its
\* entry at index 0; a save into a full store removes the last stored entry
\* and no other; and the pruning at 80% of the quota removes the last
\* max(1, 20%) of the stored entries and no others.
C26_BoundedFrontInsertTailRemoval ==
    [][ /\ Len(history') <= MAX_HISTORY
        /\ \A c \in Callers :
            /\ (Steps(c, "set", "done") /\ callers[c].op = "saveAnalysis") =>
                /\ SameEntry(history'[1], callers[c].entry)
                /\ Len(history) = MAX_HISTORY =>
                       Tail(history') = Front(history, MAX_HISTORY - 1)
            /\ Steps(c, "pruneSet", "get2") =>
                   history' = Front(history,
                                    Max(0, Len(history)
                                           - Max(1, (Len(history) * 2) \div 10)))
      ]_vars

(***************************************************************************)
(* C30                                                                     *)
(***************************************************************************)
UniqueIds(stored) ==
    \A i \in DOMAIN stored : \A j \in DOMAIN stored :
        stored[i].id = stored[j].id => i = j

\* C30: no two stored entries share an id, whenever the saves were made;
\* getAnalysis(id) returns the entry of that id, or null when there is none;
\* deleteAnalysis(id) leaves no entry of that id, and it returns false and
\* writes nothing when there was none.
C30_IdsUniqueAndKeyed ==
    [][ /\ UniqueIds(history')
        /\ \A c \in Callers :
            /\ (Steps(c, "get", "done") /\ callers[c].op = "getAnalysis") =>
                   IF \E i \in DOMAIN history : history[i].id = callers[c].arg
                   THEN /\ callers'[c].ret = "entry"
                        /\ callers'[c].entry.id = callers[c].arg
                        /\ \A i \in DOMAIN history :
                              history[i].id = callers[c].arg =>
                                  SameEntry(history[i], callers'[c].entry)
                   ELSE callers'[c].ret = "null"
            /\ (Steps(c, "get", "done") /\ callers[c].op = "deleteAnalysis") =>
                   /\ callers'[c].ret = "false"
                   /\ history' = history
                   /\ \A i \in DOMAIN history : history[i].id # callers[c].arg
            /\ (Steps(c, "get", "set") /\ callers[c].op = "deleteAnalysis") =>
                   \A i \in DOMAIN callers'[c].local :
                       callers'[c].local[i].id # callers[c].arg
      ]_vars

====
